---- MODULE Spec2Model ----
(***************************************************************************)
(* Mock execution engine of backend-mock: path matcher, condition          *)
(* evaluator, response selector, mock resolver and execution handler       *)
(* (utils/execution.js and routes/m.js).                                   *)
(*                                                                         *)
(* JavaScript strings are sequences of one-character strings, so that      *)
(* String.prototype.replace, RegExp compilation and matching are computed  *)
(* character by character.  Other JavaScript values are records tagged     *)
(* with their typeof.                                                      *)
(***************************************************************************)
EXTENDS Integers, Sequences, FiniteSets, TLC

(***************************************************************************)
(* Bounds of the model.                                                    *)
(***************************************************************************)
\* longest path template, counted in pieces of TemplatePieces
MaxTemplatePieces == 3
\* longest request path handed to matchPath, in characters
MaxPathLen == 3
\* longest condition value, in characters
MaxValueLen == 2
\* longest string held by a header, query, body or path parameter, in characters
MaxActualLen == 2
\* most responses in a list handed to pickResponse
MaxResponses == 2
\* Math.random() returns one of 0/RandomGrid, .., (RandomGrid - 1)/RandomGrid
RandomGrid == 4
\* most mocks in the table findMatchingMock searches
MaxMocks == 2
\* most responses stored for the mock a request is executed against
MaxStoredResponses == 2

VARIABLES
    call,           \* function-level specifications: the function called and its arguments
    ret,            \* function-level specifications: what the call returned, Pending before
    projects,       \* table projects, in rowid order
    mocks,          \* table mocks, in rowid order
    mock_responses, \* table mock_responses, in rowid order
    request_logs,   \* table request_logs, in rowid order
    handler,        \* per request in flight: where its handler stands, and the handler's locals
    res,            \* per request in flight: the headers set on res and what was sent through it
    logWrites       \* the INSERTs into request_logs that were issued and have not settled

callVars == <<call, ret>>
storeVars == <<projects, mocks, mock_responses, request_logs>>
handlerVars == <<handler, res, logWrites>>
vars == <<call, ret, projects, mocks, mock_responses, request_logs, handler, res, logWrites>>

\* no request is in flight
NoRequests == handler = <<>> /\ res = <<>> /\ logWrites = {}

\* the tables a function-level specification does not read
NoRows == projects = <<>> /\ mock_responses = <<>> /\ request_logs = <<>>

Pending == [t |-> "pending"]

(***************************************************************************)
(* JavaScript values.                                                      *)
(***************************************************************************)
Undefined == [t |-> "undefined"]
Null == [t |-> "null"]
Str(s) == [t |-> "string", v |-> s]
IsStr(x) == x.t = "string"

\* the characters of s[from..to], empty when from > to
Slice(s, from, to) == IF from > to THEN <<>> ELSE SubSeq(s, from, to)

\* s.startsWith(p, at) with a 1-based position
StartsWithAt(s, p, at) ==
    /\ at + Len(p) - 1 <= Len(s)
    /\ \A k \in 1..Len(p) : s[at + k - 1] = p[k]

\* String.prototype.includes
Includes(s, p) == \E at \in 1..(Len(s) + 1) : StartsWithAt(s, p, at)

(***************************************************************************)
(* RegExp.  The syntax covered is the one the engine's patterns are made   *)
(* of: literal characters, '.', '\' escapes, the assertions ^ and $, the   *)
(* quantifier *, and the capture group ([^/]+) that matchPath generates.   *)
(* An opening parenthesis that does not start that group has no closing    *)
(* parenthesis in the alphabets used here, which is a SyntaxError; a       *)
(* quantifier with nothing to repeat is a SyntaxError too.  '{' and '}'    *)
(* that form no {n,m} quantifier are literal characters (Annex B).         *)
(***************************************************************************)
SegGroup == <<"(", "[", "^", "/", "]", "+", ")">>

Tok(a, c, q) == [a |-> a, c |-> c, q |-> q]

RECURSIVE RegExpParse(_, _, _)
RegExpParse(src, i, toks) ==
    IF i > Len(src) THEN [ok |-> TRUE, toks |-> toks]
    ELSE LET c == src[i]
             star(n) == n <= Len(src) /\ src[n] = "*"
             \* an atom that ends before position n, with its quantifier
             atom(a, ch, n) ==
                 IF star(n)
                 THEN RegExpParse(src, n + 1, Append(toks, Tok(a, ch, "*")))
                 ELSE RegExpParse(src, n, Append(toks, Tok(a, ch, "1")))
         IN  CASE c = "^" ->
                   IF star(i + 1) THEN [ok |-> FALSE, toks |-> <<>>]
                   ELSE RegExpParse(src, i + 1, Append(toks, Tok("bol", "", "1")))
               [] c = "$" ->
                   IF star(i + 1) THEN [ok |-> FALSE, toks |-> <<>>]
                   ELSE RegExpParse(src, i + 1, Append(toks, Tok("eol", "", "1")))
               [] c = "*" -> [ok |-> FALSE, toks |-> <<>>]
               [] c = "\\" ->
                   IF i = Len(src) THEN [ok |-> FALSE, toks |-> <<>>]
                   ELSE atom("lit", src[i + 1], i + 2)
               [] c = "." -> atom("any", "", i + 1)
               [] c = "(" ->
                   IF StartsWithAt(src, SegGroup, i)
                   THEN atom("group", "", i + Len(SegGroup))
                   ELSE [ok |-> FALSE, toks |-> <<>>]
               [] OTHER -> atom("lit", c, i + 1)

\* new RegExp(src): ok = FALSE stands for the SyntaxError it throws
NewRegExp(src) == RegExpParse(src, 1, <<>>)

\* one character against one atom
AtomAccepts(tok, ch) ==
    CASE tok.a = "lit" -> ch = tok.c
      [] tok.a = "any" -> TRUE
      [] tok.a = "group" -> ch # "/"
      [] OTHER -> FALSE

\* number of consecutive characters from pos on that the atom accepts
RECURSIVE Run(_, _, _)
Run(tok, s, pos) ==
    IF pos <= Len(s) /\ AtomAccepts(tok, s[pos]) THEN 1 + Run(tok, s, pos + 1) ELSE 0

\* index of the capture group that token i opens
GroupIndex(toks, i) == Cardinality({j \in 1..i : toks[j].a = "group"})

NoMatch == [ok |-> FALSE, caps |-> <<>>]

(***************************************************************************)
(* Backtracking matcher: Continue matches toks[i..] at pos; Greedy tries   *)
(* the widths k, k-1, .., low of token i in that order and returns the     *)
(* first that lets the rest match (again = the token may repeat).          *)
(***************************************************************************)
RECURSIVE Continue(_, _, _, _, _)
RECURSIVE Greedy(_, _, _, _, _, _, _, _)
Continue(toks, i, s, pos, caps) ==
    IF i > Len(toks) THEN [ok |-> TRUE, caps |-> caps]
    ELSE LET tok == toks[i]
         IN  CASE tok.a = "bol" ->
                   IF pos = 1 THEN Continue(toks, i + 1, s, pos, caps) ELSE NoMatch
               [] tok.a = "eol" ->
                   IF pos = Len(s) + 1 THEN Continue(toks, i + 1, s, pos, caps) ELSE NoMatch
               [] tok.a = "group" /\ tok.q = "1" ->
                   Greedy(toks, i, s, pos, caps, Run(tok, s, pos), 1, FALSE)
               [] tok.a = "group" /\ tok.q = "*" ->
                   LET r == Greedy(toks, i, s, pos, caps, Run(tok, s, pos), 1, TRUE)
                   IN  IF r.ok THEN r ELSE Continue(toks, i + 1, s, pos, caps)
               [] tok.q = "*" ->
                   Greedy(toks, i, s, pos, caps, Run(tok, s, pos), 0, FALSE)
               [] OTHER ->
                   IF pos <= Len(s) /\ AtomAccepts(tok, s[pos])
                   THEN Continue(toks, i + 1, s, pos + 1, caps)
                   ELSE NoMatch

Greedy(toks, i, s, pos, caps, k, low, again) ==
    IF k < low THEN NoMatch
    ELSE LET caps2 == IF toks[i].a = "group"
                      THEN [caps EXCEPT ![GroupIndex(toks, i)] =
                                           Str(Slice(s, pos, pos + k - 1))]
                      ELSE caps
             r == IF again
                  THEN Continue(toks, i, s, pos + k, caps2)
                  ELSE Continue(toks, i + 1, s, pos + k, caps2)
         IN  IF r.ok THEN r ELSE Greedy(toks, i, s, pos, caps, k - 1, low, again)

\* regex.exec(s): the first start position at which the pattern matches
RECURSIVE ExecFrom(_, _, _)
ExecFrom(toks, s, start) ==
    IF start > Len(s) + 1 THEN NoMatch
    ELSE LET r == Continue(toks, 1, s, start,
                           [g \in 1..GroupIndex(toks, Len(toks)) |-> Undefined])
         IN  IF r.ok THEN r ELSE ExecFrom(toks, s, start + 1)

RegExpExec(toks, s) == ExecFrom(toks, s, 1)

(***************************************************************************)
(* matchPath (utils/execution.js)                                          *)
(***************************************************************************)
\* position of the first "}" at or after i, 0 when there is none
RECURSIVE FirstClose(_, _)
FirstClose(s, i) ==
    IF i > Len(s) THEN 0 ELSE IF s[i] = "}" THEN i ELSE FirstClose(s, i + 1)

\* pattern.replace(/{([^}]+)}/g, (_, name) => { paramNames.push(name); return '([^/]+)' })
RECURSIVE ReplacePlaceholders(_, _, _, _)
ReplacePlaceholders(pattern, i, out, names) ==
    IF i > Len(pattern) THEN [regexStr |-> out, paramNames |-> names]
    ELSE LET j == IF pattern[i] = "{" THEN FirstClose(pattern, i + 1) ELSE 0
         IN  IF j > i + 1
             THEN ReplacePlaceholders(pattern, j + 1, out \o SegGroup,
                                      Append(names, Slice(pattern, i + 1, j - 1)))
             ELSE ReplacePlaceholders(pattern, i + 1, Append(out, pattern[i]), names)

\* regexStr.replace(/\./g, '\\.')
RECURSIVE EscapeDots(_)
EscapeDots(s) ==
    IF s = <<>> THEN <<>>
    ELSE (IF Head(s) = "." THEN <<"\\", ".">> ELSE <<Head(s)>>) \o EscapeDots(Tail(s))

\* every name given the first capture: the index into match is not advanced
ParamsOf_FirstCapture(paramNames, caps) ==
    [n \in {paramNames[k] : k \in 1..Len(paramNames)} |-> caps[1]]

\* params[name] = match[i + 1] for every name in order: a later duplicate overwrites
ParamsOf(paramNames, caps) ==
    [n \in {paramNames[k] : k \in 1..Len(paramNames)} |->
        caps[CHOOSE k \in 1..Len(paramNames) :
                /\ paramNames[k] = n
                /\ \A m \in (k + 1)..Len(paramNames) : paramNames[m] # n]]

EmptyParams == <<>>

\* threw = TRUE stands for the SyntaxError of new RegExp leaving matchPath
matchPath(pattern, actualPath) ==
    LET rep == ReplacePlaceholders(pattern, 1, <<>>, <<>>)
        escaped == EscapeDots(rep.regexStr)
        regex == NewRegExp(<<"^">> \o escaped \o <<"$">>)
    IN  IF ~regex.ok
        THEN [threw |-> TRUE, isMatch |-> FALSE, params |-> EmptyParams]
        ELSE LET match == RegExpExec(regex.toks, actualPath)
             IN  IF ~match.ok
                 THEN [threw |-> FALSE, isMatch |-> FALSE, params |-> EmptyParams]
                 ELSE [threw |-> FALSE, isMatch |-> TRUE,
                       params |-> ParamsOf(rep.paramNames, match.caps)]

(***************************************************************************)
(* Inputs of matchPath: templates are concatenations of pieces (single     *)
(* characters and whole placeholders), paths are character sequences.      *)
(***************************************************************************)
TemplatePieces ==
    { <<"/">>, <<"a">>, <<".">>, <<"*">>, <<"(">>, <<"{">>, <<"}">>,
      <<"{", "a", "}">>, <<"{", "b", "}">> }

PathChars == {"/", "a", "."}

RECURSIVE Flatten(_)
Flatten(ps) == IF ps = <<>> THEN <<>> ELSE Head(ps) \o Flatten(Tail(ps))

Templates ==
    { Flatten(ps) : ps \in UNION { [1..n -> TemplatePieces] : n \in 0..MaxTemplatePieces } }

Paths == UNION { [1..n -> PathChars] : n \in 0..MaxPathLen }

InitMatch ==
    /\ NoRequests /\ NoRows /\ mocks = <<>>
    /\ call \in [fn : {"matchPath"}, pattern : Templates, actualPath : Paths]
    /\ ret = Pending

CallMatchPath ==
    /\ call.fn = "matchPath"
    /\ ret = Pending
    /\ ret' = matchPath(call.pattern, call.actualPath)
    /\ UNCHANGED <<call, storeVars, handlerVars>>

NextMatch == CallMatchPath

SpecMatch == InitMatch /\ [][NextMatch]_vars

(***************************************************************************)
(* Segments of a path or template: the pieces between the '/' characters.  *)
(***************************************************************************)
RECURSIVE SplitSlash(_, _)
SplitSlash(s, cur) ==
    IF s = <<>> THEN <<cur>>
    ELSE IF Head(s) = "/" THEN <<cur>> \o SplitSlash(Tail(s), <<>>)
    ELSE SplitSlash(Tail(s), Append(cur, Head(s)))

Segments(s) == SplitSlash(s, <<>>)

Matched == call.fn = "matchPath" /\ ret # Pending

\* C7 (as claimed): a path whose number of '/'-separated segments differs from
\* the template's is never matched: whenever matchPath returns for such a pair,
\* it returns isMatch = false with an empty params map.
C7_SegmentCountMismatchNeverMatches ==
    (Matched /\ ~ret.threw
        /\ Len(Segments(call.pattern)) # Len(Segments(call.actualPath)))
        => (~ret.isMatch /\ ret.params = EmptyParams)

(***************************************************************************)
(* Round trip: a template made of whole-segment placeholders and safe      *)
(* literal segments, and a path that instantiates it.                      *)
(***************************************************************************)
SafeLiteralChars == {"a", "b", "0", "1", "-", "_", "."}

IsPlaceholderSegment(seg) ==
    /\ Len(seg) >= 3
    /\ seg[1] = "{"
    /\ seg[Len(seg)] = "}"
    /\ \A k \in 2..(Len(seg) - 1) : seg[k] # "}"

IsSafeLiteralSegment(seg) == \A k \in 1..Len(seg) : seg[k] \in SafeLiteralChars

PlaceholderName(seg) == Slice(seg, 2, Len(seg) - 1)

PlaceholderPositions(tsegs) == {k \in 1..Len(tsegs) : IsPlaceholderSegment(tsegs[k])}

RoundTripTemplate(t) ==
    LET tsegs == Segments(t)
    IN  /\ \A k \in 1..Len(tsegs) :
              IsPlaceholderSegment(tsegs[k]) \/ IsSafeLiteralSegment(tsegs[k])
        /\ \A j, k \in PlaceholderPositions(tsegs) :
              j # k => PlaceholderName(tsegs[j]) # PlaceholderName(tsegs[k])

\* p is t with every placeholder replaced by a non-empty string without '/'
InstanceOf(t, p) ==
    LET tsegs == Segments(t)
        psegs == Segments(p)
    IN  /\ Len(tsegs) = Len(psegs)
        /\ \A k \in 1..Len(tsegs) :
              IF IsPlaceholderSegment(tsegs[k]) THEN psegs[k] # <<>>
              ELSE psegs[k] = tsegs[k]

Substituted(t, p) ==
    LET tsegs == Segments(t)
        psegs == Segments(p)
    IN  [n \in {PlaceholderName(tsegs[k]) : k \in PlaceholderPositions(tsegs)} |->
            Str(psegs[CHOOSE k \in PlaceholderPositions(tsegs) :
                         PlaceholderName(tsegs[k]) = n])]

RoundTripCase ==
    /\ Matched
    /\ RoundTripTemplate(call.pattern)
    /\ InstanceOf(call.pattern, call.actualPath)

\* C8: for a template of whole-segment placeholders with distinct names and
\* literal segments of letters, digits, '-', '_' and '.', and a path that
\* replaces each placeholder by a non-empty string without '/', matchPath
\* matches and params maps each name to exactly the substituted string and
\* has no other key.
C8_ParamsRoundTrip ==
    RoundTripCase =>
        /\ ~ret.threw
        /\ ret.isMatch
        /\ ret.params = Substituted(call.pattern, call.actualPath)

\* two placeholders that received different strings have been extracted
C8_Witness ==
    /\ RoundTripCase
    /\ \E m, n \in DOMAIN ret.params : ret.params[m] # ret.params[n]

HasPlaceholder(t) == ReplacePlaceholders(t, 1, <<>>, <<>>).paramNames # <<>>

\* C9 (as claimed): characters outside a placeholder are matched literally, so
\* a template without placeholders matches exactly the path equal to it, and
\* matchPath always returns a result ({isMatch:false, params:{}} on failure)
\* and never raises.
C9_StaticTemplateIsLiteral ==
    Matched =>
        /\ ~ret.threw
        /\ ~ret.isMatch => ret.params = EmptyParams
        /\ ~HasPlaceholder(call.pattern) =>
               (ret.isMatch <=> call.actualPath = call.pattern)

(***************************************************************************)
(* evaluateCondition (utils/execution.js).  Objects are finite maps from   *)
(* property names to values; a missing property reads as undefined.        *)
(***************************************************************************)
Num(n) == [t |-> "number", v |-> n]
Obj(m) == [t |-> "object", v |-> m]
Arr(items) == [t |-> "array", v |-> items]

\* typeof x
TypeOf(x) == IF x.t \in {"null", "array"} THEN "object" ELSE x.t

\* obj[key]
Get(obj, key) == IF key \in DOMAIN obj THEN obj[key] ELSE Undefined

LowerChar(c) == CASE c = "K" -> "k" [] c = "J" -> "j" [] OTHER -> c

\* the field read as it is spelled
ToLowerCase_AsSpelled(s) == s

\* String.prototype.toLowerCase
ToLowerCase(s) == [k \in 1..Len(s) |-> LowerChar(s[k])]

RECURSIVE Digits(_)
Digits(n) ==
    LET d == <<"0", "1", "2", "3", "4", "5", "6", "7", "8", "9">>[(n % 10) + 1]
    IN  IF n < 10 THEN <<d>> ELSE Append(Digits(n \div 10), d)

\* String(x) for the strings and non-negative integers a request carries
StringOf(x) == IF x.t = "number" THEN Digits(x.v) ELSE x.v

Return(b) == [threw |-> FALSE, value |-> b]

\* a switch without the cases startsWith and the like: every operator holds
ApplyOperator_DefaultTrue(operator, actualStr, value) ==
    CASE operator = "equals" -> Return(actualStr = value)
      [] operator = "contains" -> Return(Includes(actualStr, value))
      [] operator = "regex" ->
            LET re == NewRegExp(value)
            IN  IF re.ok THEN Return(RegExpExec(re.toks, actualStr).ok)
                ELSE Return(FALSE)
      [] OTHER -> Return(TRUE)

\* the switch over the operator; new RegExp is inside try/catch
ApplyOperator(operator, actualStr, value) ==
    CASE operator = "equals" -> Return(actualStr = value)
      [] operator = "contains" -> Return(Includes(actualStr, value))
      [] operator = "regex" ->
            LET re == NewRegExp(value)
            IN  IF re.ok THEN Return(RegExpExec(re.toks, actualStr).ok)
                ELSE Return(FALSE)
      [] OTHER -> Return(FALSE)

\* the TypeError of destructuring a condition that is null
Raised == [threw |-> TRUE, value |-> FALSE]

evaluateCondition(condition, req, pathParams) ==
    LET type == condition.type
        field == condition.field
        operator == condition.operator
        value == condition.value
        actual ==
            CASE type = "header" -> Get(req.headers, ToLowerCase(field))
              [] type = "query" -> Get(req.query, field)
              [] type = "body" ->
                    IF TypeOf(req.body) = "object" /\ req.body # Null
                    THEN Get(req.body.v, field)
                    ELSE Undefined
              [] type = "path" -> Get(pathParams, field)
              [] OTHER -> Undefined
    IN  IF condition = Null THEN Raised
        ELSE IF type \notin {"header", "query", "body", "path"} THEN Return(FALSE)
        ELSE IF actual = Undefined \/ actual = Null THEN Return(FALSE)
        ELSE ApplyOperator(operator, StringOf(actual), value)

(***************************************************************************)
(* Inputs of evaluateCondition.  Header names arrive lower-cased from the  *)
(* HTTP parser; the names in the query, the body and the path parameters   *)
(* keep their case.  One part of the request holds one property.           *)
(***************************************************************************)
ConditionTypes == {"header", "query", "body", "path", "cookie"}
ConditionOperators == {"equals", "contains", "regex", "startsWith"}
FieldNames == {<<"k">>, <<"K">>}
ValueChars == {"a", "1", ".", "*"}
ActualChars == {"a", "1"}

ConditionValues == UNION { [1..n -> ValueChars] : n \in 0..MaxValueLen }
ActualStrings == UNION { [1..n -> ActualChars] : n \in 0..MaxActualLen }

Conditions ==
    [type : ConditionTypes, field : FieldNames,
     operator : ConditionOperators, value : ConditionValues]

EmptyObject == <<>>

OneProperty(names, values) == { n :> v : n \in names, v \in values }

NoRequestData == [headers |-> EmptyObject, query |-> EmptyObject, body |-> Undefined]

RequestLikes ==
    { [NoRequestData EXCEPT !.headers = h] :
          h \in OneProperty({<<"k">>}, {Str(a) : a \in ActualStrings}) }
    \cup { [NoRequestData EXCEPT !.query = q] :
          q \in OneProperty(FieldNames, {Str(a) : a \in ActualStrings}) }
    \cup { [NoRequestData EXCEPT !.body = Obj(b)] :
          b \in {EmptyObject} \cup
                OneProperty(FieldNames, {Str(a) : a \in ActualStrings} \cup {Null, Num(1), Num(11)}) }
    \cup { [NoRequestData EXCEPT !.body = b] : b \in {Null} \cup {Str(a) : a \in ActualStrings} }
    \cup { NoRequestData }

PathParamMaps ==
    {EmptyParams} \cup OneProperty(FieldNames, {Str(a) : a \in ActualStrings} \cup {Undefined})

CondCall(c, r, pp) ==
    [fn |-> "evaluateCondition", condition |-> c, req |-> r, pathParams |-> pp]

InitCond ==
    /\ NoRequests /\ NoRows /\ mocks = <<>>
    /\ \E c \in Conditions :
          \/ \E r \in RequestLikes : call = CondCall(c, r, EmptyParams)
          \/ \E pp \in PathParamMaps : call = CondCall(c, NoRequestData, pp)
    /\ ret = Pending

CallEvaluateCondition ==
    /\ call.fn = "evaluateCondition"
    /\ ret = Pending
    /\ ret' = evaluateCondition(call.condition, call.req, call.pathParams)
    /\ UNCHANGED <<call, storeVars, handlerVars>>

NextCond == CallEvaluateCondition

SpecCond == InitCond /\ [][NextCond]_vars

(***************************************************************************)
(* Reference evaluator: the values the condition can be about, and the     *)
(* relation its operator names.                                            *)
(***************************************************************************)
RefActuals(c, req, pathParams) ==
    CASE c.type = "header" ->
            { req.headers[h] : h \in {n \in DOMAIN req.headers :
                                         ToLowerCase(n) = ToLowerCase(c.field)} }
      [] c.type = "query" -> { req.query[n] : n \in DOMAIN req.query \cap {c.field} }
      [] c.type = "body" ->
            IF req.body.t = "object"
            THEN { req.body.v[n] : n \in DOMAIN req.body.v \cap {c.field} }
            ELSE {}
      [] c.type = "path" -> { pathParams[n] : n \in DOMAIN pathParams \cap {c.field} }
      [] OTHER -> {}

RefHolds(operator, actualStr, value) ==
    \/ operator = "equals" /\ actualStr = value
    \/ operator = "contains"
          /\ \E i \in 0..Len(actualStr) :
                /\ i + Len(value) <= Len(actualStr)
                /\ SubSeq(actualStr, i + 1, i + Len(value)) = value
    \/ operator = "regex" /\ NewRegExp(value).ok
          /\ RegExpExec(NewRegExp(value).toks, actualStr).ok

RefEvaluate(c, req, pathParams) ==
    \E a \in RefActuals(c, req, pathParams) :
        /\ a.t \in {"string", "number"}
        /\ RefHolds(c.operator, StringOf(a), c.value)

Evaluated == call.fn = "evaluateCondition" /\ ret # Pending

CasePairs == {{"k", "K"}, {"j", "J"}}

SameUpToCase(a, b) ==
    /\ Len(a) = Len(b)
    /\ \A i \in 1..Len(a) : a[i] = b[i] \/ {a[i], b[i]} \in CasePairs

\* the condition with another spelling of its field
Respelled(c, f) == [c EXCEPT !.field = f]

\* C11: the header lookup of a header condition ignores letter case: for a
\* header present in the request, a condition whose field is that header's
\* name up to letter case is decided on that header's value, and every
\* respelling of the field that differs only in letter case evaluates to the
\* same result on the same request.
C11_HeaderFieldCaseIgnored ==
    (Evaluated /\ call.condition.type = "header") =>
        /\ \A h \in DOMAIN call.req.headers :
              SameUpToCase(h, call.condition.field) =>
                  ret = ApplyOperator(call.condition.operator,
                                      StringOf(call.req.headers[h]),
                                      call.condition.value)
        /\ \A f \in FieldNames :
              SameUpToCase(f, call.condition.field) =>
                  evaluateCondition(Respelled(call.condition, f),
                                    call.req, call.pathParams) = ret

\* a condition on field K has been decided, to true, on the value of the
\* request's header k
C11_Witness ==
    /\ Evaluated
    /\ call.condition.type = "header"
    /\ call.condition.field = <<"K">>
    /\ call.condition.operator = "equals"
    /\ call.condition.value = <<"a">>
    /\ call.req.headers = (<<"k">> :> Str(<<"a">>))
    /\ ret = Return(TRUE)

(***************************************************************************)
(* JSON columns.  A TEXT column that holds JSON is the value its text      *)
(* denotes, or no JSON at all; a column can also be NULL.                  *)
(***************************************************************************)
JsonText(value) == [t |-> "string", json |-> "ok", value |-> value]
NotJson == [t |-> "string", json |-> "invalid"]

\* JSON.parse(text): threw = TRUE stands for its SyntaxError
JsonParse(text) ==
    IF text.json = "ok" THEN [threw |-> FALSE, value |-> text.value]
    ELSE [threw |-> TRUE, value |-> Undefined]

(***************************************************************************)
(* responseMatchesConditions and pickResponse (utils/execution.js)         *)
(***************************************************************************)
\* conditions.every((c) => evaluateCondition(c, req, pathParams)), which stops at
\* the first condition that is false
RECURSIVE EveryCondition(_, _, _, _)
\* one step of every: r is what the callback returned for conditions[i]
EveryFrom(conditions, i, req, pathParams, r) ==
    IF r.threw THEN r
    ELSE IF ~r.value THEN Return(FALSE)
    ELSE EveryCondition(conditions, i + 1, req, pathParams)

EveryCondition(conditions, i, req, pathParams) ==
    IF i > Len(conditions) THEN Return(TRUE)
    ELSE EveryFrom(conditions, i, req, pathParams,
                   evaluateCondition(conditions[i], req, pathParams))

\* the conditions of a response: its column parsed, [] when JSON.parse throws
ParsedConditions(response) ==
    IF TypeOf(response.conditions) # "string" THEN Arr(<<>>)
    ELSE IF JsonParse(response.conditions).threw THEN Arr(<<>>)
    ELSE JsonParse(response.conditions).value

\* { matches: allMatch, hasConditions: true }
MatchResult(allMatch) ==
    [threw |-> allMatch.threw, matches |-> allMatch.value, hasConditions |-> TRUE]

\* without the Array.isArray test: whatever was parsed counts as conditions
MatchesParsed_AnyValueCounts(conditions, req, pathParams) ==
    IF conditions.t = "array" /\ Len(conditions.v) = 0
    THEN [threw |-> FALSE, matches |-> TRUE, hasConditions |-> FALSE]
    ELSE IF conditions.t = "array"
    THEN MatchResult(EveryCondition(conditions.v, 1, req, pathParams))
    ELSE [threw |-> FALSE, matches |-> TRUE, hasConditions |-> TRUE]

\* responseMatchesConditions from line 99 on
MatchesParsed(conditions, req, pathParams) ==
    IF conditions.t # "array" THEN [threw |-> FALSE, matches |-> TRUE, hasConditions |-> FALSE]
    ELSE IF Len(conditions.v) = 0 THEN [threw |-> FALSE, matches |-> TRUE, hasConditions |-> FALSE]
    ELSE MatchResult(EveryCondition(conditions.v, 1, req, pathParams))

responseMatchesConditions(response, req, pathParams) ==
    MatchesParsed(ParsedConditions(response), req, pathParams)

RECURSIVE Partition(_, _, _, _, _, _)
\* the body of the for loop: m is what responseMatchesConditions returned for responses[i]
PartitionEntry(responses, i, req, pathParams, conditionalMatches, unconditioned, m) ==
    IF m.threw
    THEN [threw |-> TRUE, conditionalMatches |-> <<>>, unconditioned |-> <<>>]
    ELSE Partition(responses, i + 1, req, pathParams,
                   IF m.hasConditions /\ m.matches
                   THEN Append(conditionalMatches, responses[i]) ELSE conditionalMatches,
                   IF ~(m.hasConditions /\ m.matches) /\ ~m.hasConditions
                   THEN Append(unconditioned, responses[i]) ELSE unconditioned)

\* the for loop of pickResponse: the two pools, in the order of the list
Partition(responses, i, req, pathParams, conditionalMatches, unconditioned) ==
    IF i > Len(responses)
    THEN [threw |-> FALSE, conditionalMatches |-> conditionalMatches,
          unconditioned |-> unconditioned]
    ELSE PartitionEntry(responses, i, req, pathParams, conditionalMatches, unconditioned,
                        responseMatchesConditions(responses[i], req, pathParams))

\* r.weight || 0
WeightOf(r) == IF r.weight.t = "number" THEN r.weight.v ELSE 0

RECURSIVE TotalWeight(_)
TotalWeight(candidates) ==
    IF candidates = <<>> THEN 0
    ELSE WeightOf(Head(candidates)) + TotalWeight(Tail(candidates))

\* the first candidate whatever is flagged
DefaultOrFirst_AlwaysFirst(candidates) == candidates[1]

\* candidates.find((r) => r.is_default === 1) || candidates[0]
DefaultOrFirst(candidates) ==
    IF \E k \in 1..Len(candidates) : candidates[k].is_default = Num(1)
    THEN candidates[CHOOSE k \in 1..Len(candidates) :
                       /\ candidates[k].is_default = Num(1)
                       /\ \A j \in 1..(k - 1) : candidates[j].is_default # Num(1)]
    ELSE candidates[1]

\* the walk that stops only when the remainder is negative
RECURSIVE Walk_StopBelowZero(_, _, _)
Walk_StopBelowZero(candidates, i, roll) ==
    IF i > Len(candidates) THEN candidates[Len(candidates)]
    ELSE LET rest == roll - RandomGrid * WeightOf(candidates[i])
         IN  IF rest < 0 THEN candidates[i]
             ELSE Walk_StopBelowZero(candidates, i + 1, rest)

\* the weighted walk; roll is kept multiplied by RandomGrid, so that it is an integer
RECURSIVE Walk(_, _, _)
Walk(candidates, i, roll) ==
    IF i > Len(candidates) THEN candidates[Len(candidates)]
    ELSE LET rest == roll - RandomGrid * WeightOf(candidates[i])
         IN  IF rest <= 0 THEN candidates[i] ELSE Walk(candidates, i + 1, rest)

Threw == [threw |-> TRUE, value |-> Undefined]
Returned(v) == [threw |-> FALSE, value |-> v]

\* the unconditioned responses preferred to the satisfied conditional ones
ChoosePool_UnconditionedFirst(conditionalMatches, unconditioned) ==
    IF Len(unconditioned) > 0 THEN unconditioned ELSE conditionalMatches

\* conditionalMatches.length > 0 ? conditionalMatches : unconditioned
ChoosePool(conditionalMatches, unconditioned) ==
    IF Len(conditionalMatches) > 0 THEN conditionalMatches ELSE unconditioned

\* random is the numerator of what Math.random() returns, random / RandomGrid
\* pool.length > 0 ? pool : responses
Candidates(pool, responses) == IF Len(pool) > 0 THEN pool ELSE responses

\* pickResponse from line 139 on
PickAmong(candidates, totalWeight, random) ==
    IF Len(candidates) = 1 THEN Returned(candidates[1])
    ELSE IF totalWeight = 0 THEN Returned(DefaultOrFirst(candidates))
    ELSE Returned(Walk(candidates, 1, random * totalWeight))

PickCandidate(candidates, random) == PickAmong(candidates, TotalWeight(candidates), random)

\* pickResponse from line 136 on: parts is what the for loop left
PickFromPools(parts, responses, random) ==
    IF parts.threw THEN Threw
    ELSE PickCandidate(
             Candidates(ChoosePool(parts.conditionalMatches, parts.unconditioned), responses),
             random)

pickResponse(responses, req, pathParams, random) ==
    IF Len(responses) = 0 THEN Returned(Null)
    ELSE IF Len(responses) = 1 THEN Returned(responses[1])
    ELSE PickFromPools(Partition(responses, 1, req, pathParams, <<>>, <<>>), responses, random)

(***************************************************************************)
(* Inputs of pickResponse: response rows with every kind of conditions     *)
(* column, and requests that satisfy some of the conditions.               *)
(***************************************************************************)
HeaderIsA == [type |-> "header", field |-> <<"K">>, operator |-> "equals", value |-> <<"a">>]
PathIsA == [type |-> "path", field |-> <<"k">>, operator |-> "equals", value |-> <<"a">>]

ConditionsColumns ==
    { Null, NotJson, JsonText(Obj(EmptyObject)), JsonText(Arr(<<>>)),
      JsonText(Arr(<<HeaderIsA>>)), JsonText(Arr(<<HeaderIsA, PathIsA>>)) }

Weights == {Null, Num(0), Num(1), Num(2)}

PickRows == [conditions : ConditionsColumns, weight : Weights, is_default : {Num(0), Num(1)}]

\* a list of rows, each with its position as response_id
Numbered(rows) ==
    [k \in 1..Len(rows) |->
        [response_id |-> k, conditions |-> rows[k].conditions,
         weight |-> rows[k].weight, is_default |-> rows[k].is_default]]

PickRequests ==
    { NoRequestData, [NoRequestData EXCEPT !.headers = <<"k">> :> Str(<<"a">>)] }

PickPathParams == { EmptyParams, <<"k">> :> Str(<<"a">>) }

InitPick ==
    /\ NoRequests /\ NoRows /\ mocks = <<>>
    /\ \E n \in 0..MaxResponses :
          \E rows \in [1..n -> PickRows], r \in PickRequests, pp \in PickPathParams :
             call = [fn |-> "pickResponse", responses |-> Numbered(rows),
                     req |-> r, pathParams |-> pp, random |-> Undefined]
    /\ ret = Pending

\* the call, with the value Math.random() returns in it recorded in call.random
CallPickResponse ==
    /\ call.fn = "pickResponse"
    /\ ret = Pending
    /\ \E u \in 0..(RandomGrid - 1) :
          /\ call' = [call EXCEPT !.random = u]
          /\ ret' = pickResponse(call.responses, call.req, call.pathParams, u)
    /\ UNCHANGED <<storeVars, handlerVars>>

NextPick == CallPickResponse

SpecPick == InitPick /\ [][NextPick]_vars

(***************************************************************************)
(* The pool the selector is to choose from, stated on the condition lists. *)
(***************************************************************************)
\* the condition list of a response: empty unless the column holds a JSON list
ConditionList(r) ==
    IF r.conditions.t = "string" /\ r.conditions.json = "ok" /\ r.conditions.value.t = "array"
    THEN r.conditions.value.v
    ELSE <<>>

FullySatisfied(r, req, pathParams) ==
    /\ ConditionList(r) # <<>>
    /\ \A k \in 1..Len(ConditionList(r)) : RefEvaluate(ConditionList(r)[k], req, pathParams)

Members(list) == {list[k] : k \in 1..Len(list)}

ChosenPool(responses, req, pathParams) ==
    LET satisfied == {r \in Members(responses) : FullySatisfied(r, req, pathParams)}
        unconditioned == {r \in Members(responses) : ConditionList(r) = <<>>}
    IN  IF satisfied # {} THEN satisfied
        ELSE IF unconditioned # {} THEN unconditioned
        ELSE Members(responses)

Picked == call.fn = "pickResponse" /\ ret # Pending

\* C1: for a list of two or more responses pickResponse returns a member of
\* the chosen pool: the responses whose non-empty condition list is fully
\* satisfied if there is any, otherwise the responses without conditions if
\* there is any, otherwise the whole list.
C1_ReturnsMemberOfChosenPool ==
    (Picked /\ Len(call.responses) >= 2) =>
        /\ ~ret.threw
        /\ ret.value \in ChosenPool(call.responses, call.req, call.pathParams)

\* a satisfied conditional response was returned although an unconditioned
\* default response with a positive weight was in the list
C1_Witness ==
    /\ Picked
    /\ Len(call.responses) >= 2
    /\ FullySatisfied(ret.value, call.req, call.pathParams)
    /\ \E r \in Members(call.responses) :
          ConditionList(r) = <<>> /\ r.is_default = Num(1) /\ WeightOf(r) > 0

\* the members of a list that are in a set, in the order of the list
SelectIn(list, set) ==
    LET In(r) == r \in set
    IN  SelectSeq(list, In)

\* the chosen pool in the order of the list
PoolInOrder(responses, req, pathParams) ==
    SelectIn(responses, ChosenPool(responses, req, pathParams))

\* the pool of the call that has returned
CallPool == PoolInOrder(call.responses, call.req, call.pathParams)

\* the weight a member counts with: its weight column if it is a number
Share(r) == IF r.weight.t = "number" THEN r.weight.v ELSE 0

\* the sum of the shares of the first k members
RECURSIVE ShareUpTo(_, _)
ShareUpTo(pool, k) == IF k = 0 THEN 0 ELSE ShareUpTo(pool, k - 1) + Share(pool[k])

ShareTotal(pool) == ShareUpTo(pool, Len(pool))

\* the call has returned, from a pool of two or more with positive total weight
WeightedPick == Picked /\ Len(CallPool) >= 2 /\ ShareTotal(CallPool) > 0

\* the draw value x = (call.random / RandomGrid) * total lies in [lo, hi)
DrawInClosedOpen(lo, hi, total) ==
    /\ RandomGrid * lo <= call.random * total
    /\ call.random * total < RandomGrid * hi

\* the draw value lies in (lo, hi], or is 0 = lo
DrawInOpenClosed(lo, hi, total) ==
    /\ \/ RandomGrid * lo < call.random * total
       \/ lo = 0 /\ call.random = 0
    /\ call.random * total <= RandomGrid * hi

\* what the call would have returned on each draw of the grid
PicksOfGrid ==
    [u \in 0..(RandomGrid - 1) |->
        pickResponse(call.responses, call.req, call.pathParams, u)]

\* the draws of the grid on which the call would have returned r
DrawsSelecting(r, picks) == { u \in DOMAIN picks : picks[u] = Returned(r) }

ClosedOpenIn(pool) ==
    LET total == ShareTotal(pool)
    IN  (Len(pool) >= 2 /\ total > 0) =>
        \A k \in 1..Len(pool) :
            DrawInClosedOpen(ShareUpTo(pool, k - 1), ShareUpTo(pool, k), total) =>
                ret = Returned(pool[k])

\* C12 as stated: the member returned for a draw x in [0, W) is the one whose
\* interval [weights before it, weights before it plus its own) contains x.
C12_ClosedOpenIntervals == Picked => ClosedOpenIn(CallPool)

\* the count of grid draws selecting each member is its proportional part of
\* the grid, to one draw; it is the same for every draw of the call, and is
\* counted at the first
SharesOf(pool, total, picks) ==
    \A k \in 1..Len(pool) :
        LET n == Cardinality(DrawsSelecting(pool[k], picks)) * total
            part == Share(pool[k]) * RandomGrid
        IN  n - part <= total /\ part - n <= total

SharesIn(pool, total) == call.random = 0 => SharesOf(pool, total, PicksOfGrid)

OpenClosedIn(pool) ==
    LET total == ShareTotal(pool)
    IN  (Len(pool) >= 2 /\ total > 0) =>
        /\ ~ret.threw
        /\ \E k \in 1..Len(pool) :
              /\ ret = Returned(pool[k])
              /\ DrawInOpenClosed(ShareUpTo(pool, k - 1), ShareUpTo(pool, k), total)
              /\ \A j \in 1..(k - 1) :
                    ~DrawInOpenClosed(ShareUpTo(pool, j - 1), ShareUpTo(pool, j), total)
        /\ SharesIn(pool, total)

\* C12: with a pool of two or more members and positive total weight W, the
\* member returned for a draw x in [0, W) is the first one at which the sum of
\* the weights up to and including it reaches x: its interval is closed on
\* the right, (weights before it, weights before it plus its own], and the
\* draw 0 returns the pool's first member.  The number of grid draws that
\* select a member differs from its proportional part weight / W of the grid
\* by at most one draw, and the result is a function of the inputs and the
\* draw.
C12_OpenClosedIntervals == Picked => OpenClosedIn(CallPool)

\* the second of two members of weight 1 was returned for a draw above 1, and
\* the first would have been returned for the draw 1 itself
C12_Witness ==
    /\ WeightedPick
    /\ Len(CallPool) = 2
    /\ Share(CallPool[1]) = 1 /\ Share(CallPool[2]) = 1
    /\ call.random * 2 > RandomGrid
    /\ ret = Returned(CallPool[2])
    /\ \E u \in 0..(RandomGrid - 1) :
          u * 2 = RandomGrid /\ u \in DrawsSelecting(CallPool[1], PicksOfGrid)

\* the positions of the pool members flagged is_default
Flagged(pool) == {k \in 1..Len(pool) : pool[k].is_default = Num(1)}

\* the least position of a set of positions
First(positions) == CHOOSE k \in positions : \A j \in positions : k <= j

ZeroWeightPick == Picked /\ Len(CallPool) >= 2 /\ ShareTotal(CallPool) = 0

DefaultOrFirstOf(pool) ==
    (Len(pool) >= 2 /\ ShareTotal(pool) = 0) =>
        /\ ret = Returned(IF Flagged(pool) # {} THEN pool[First(Flagged(pool))] ELSE pool[1])
        /\ call.random = 0 => \A u \in DOMAIN PicksOfGrid : PicksOfGrid[u] = ret

\* C13: with a pool of two or more members whose weights (a missing weight
\* counted as 0) sum to 0, pickResponse returns the first pool member flagged
\* is_default if there is one, otherwise the pool's first member, and every
\* draw gives that same result (compared at the call with the first draw).
C13_ZeroWeightReturnsDefaultOrFirst == Picked => DefaultOrFirstOf(CallPool)

\* a pool of two members without weight whose second member is flagged has
\* returned the second
C13_Witness ==
    /\ ZeroWeightPick
    /\ Len(CallPool) = 2
    /\ Flagged(CallPool) = {2}
    /\ CallPool[1].weight = Null
    /\ ret = Returned(CallPool[2])

(***************************************************************************)
(* pickResponse on whatever it can be given: no list at all (null or       *)
(* undefined), and rows as POST and PUT .../responses store them, whose    *)
(* conditions column holds the client's JSON unvalidated, a list with a    *)
(* null item included.                                                     *)
\* C29 (as claimed): from a chosen pool of two or more members with positive
\* total weight, pickResponse never returns a member whose weight is 0 or
\* missing, whatever the draw, the draw 0 included.
C29_NeverReturnsZeroWeight ==
    WeightedPick => Share(ret.value) > 0

\* the conditions column of r is missing, is not JSON, or is JSON for
\* anything but a non-empty list
NoConditionsStored(r) ==
    \/ r.conditions.t # "string"
    \/ r.conditions.json # "ok"
    \/ r.conditions.value.t # "array"
    \/ Len(r.conditions.value.v) = 0

\* every response of the list without stored conditions is in the unconditioned part
AllUnconditionedIn(responses, parts) ==
    /\ ~parts.threw
    /\ \A r \in Members(responses) :
          NoConditionsStored(r) <=> r \in Members(parts.unconditioned)
    /\ \A r \in Members(parts.conditionalMatches) : ~NoConditionsStored(r)

\* C24: a response whose conditions column is missing, unparseable or
\* anything but a non-empty list has no conditions: responseMatchesConditions
\* returns {matches: true, hasConditions: false} for it without raising,
\* pickResponse puts it, and only such responses, in the unconditioned pool,
\* and returns one of them when no conditional response is satisfied.
C24_MalformedConditionsMeanNone ==
    Picked =>
        /\ \A r \in Members(call.responses) :
              NoConditionsStored(r) =>
                  responseMatchesConditions(r, call.req, call.pathParams)
                      = [threw |-> FALSE, matches |-> TRUE, hasConditions |-> FALSE]
        /\ Len(call.responses) >= 2 =>
              /\ AllUnconditionedIn(call.responses,
                     Partition(call.responses, 1, call.req, call.pathParams, <<>>, <<>>))
              /\ (/\ \E r \in Members(call.responses) : NoConditionsStored(r)
                  /\ \A r \in Members(call.responses) :
                        ~FullySatisfied(r, call.req, call.pathParams))
                    => NoConditionsStored(ret.value)

\* the second response of a list, whose conditions column is not JSON, was
\* returned by the weighted walk; the first one has a NULL column
C24_Witness ==
    /\ Picked
    /\ Len(call.responses) >= 2
    /\ call.responses[1].conditions = Null
    /\ call.responses[2].conditions = NotJson
    /\ WeightOf(call.responses[1]) > 0
    /\ ret.value = call.responses[2]

(***************************************************************************)
\* if (!responses || responses.length === 0) return null, and the rest
pickResponseOf(responses, req, pathParams, random) ==
    IF responses \in {Null, Undefined} THEN Returned(Null)
    ELSE pickResponse(responses.v, req, pathParams, random)

NullItem == JsonText(Arr(<<Null>>))

AnyRows ==
    [conditions : {JsonText(Arr(<<>>)), JsonText(Arr(<<HeaderIsA>>)), NullItem},
     weight : {Null, Num(0), Num(1)}, is_default : {Num(0), Num(1)}]

InitPickAny ==
    /\ NoRequests /\ NoRows /\ mocks = <<>>
    /\ \E r \in PickRequests :
          \/ \E n \in 0..MaxResponses : \E rows \in [1..n -> AnyRows] :
                call = [fn |-> "pickResponseOf", responses |-> Arr(Numbered(rows)),
                        req |-> r, pathParams |-> EmptyParams, random |-> Undefined]
          \/ \E none \in {Null, Undefined} :
                call = [fn |-> "pickResponseOf", responses |-> none,
                        req |-> r, pathParams |-> EmptyParams, random |-> Undefined]
    /\ ret = Pending

CallPickResponseOf ==
    /\ call.fn = "pickResponseOf"
    /\ ret = Pending
    /\ \E u \in 0..(RandomGrid - 1) :
          /\ call' = [call EXCEPT !.random = u]
          /\ ret' = pickResponseOf(call.responses, call.req, call.pathParams, u)
    /\ UNCHANGED <<storeVars, handlerVars>>

NextPickAny == CallPickResponseOf

SpecPickAny == InitPickAny /\ [][NextPickAny]_vars

PickedOf == call.fn = "pickResponseOf" /\ ret # Pending

\* the list given, empty when none was given
GivenList == IF call.responses \in {Null, Undefined} THEN <<>> ELSE call.responses.v

\* C14: pickResponse returns null exactly when the response list is empty or
\* absent; for a one-element list it returns that element whatever its
\* conditions, weight and is_default are and whatever the request is; and for
\* every non-empty list, every request and every draw it returns an element
\* of the list, never undefined.
C14_NullOrElementOfList ==
    PickedOf =>
        /\ ~ret.threw
        /\ ret.value # Undefined
        /\ (ret.value = Null) <=> (GivenList = <<>>)
        /\ Len(GivenList) = 1 => ret.value = GivenList[1]
        /\ Len(GivenList) >= 1 => ret.value \in Members(GivenList)

(***************************************************************************)
(* findMatchingMock (routes/m.js).  A table is the sequence of its rows in *)
(* rowid order: a SELECT returns the rows that satisfy its WHERE clause in *)
(* that order, and ORDER BY sorts them keeping that order among equals.    *)
(***************************************************************************)
\* ORDER BY LENGTH(path) DESC
RECURSIVE OrderByPathLengthDesc(_)
OrderByPathLengthDesc(rows) ==
    IF rows = <<>> THEN <<>>
    ELSE LET k == CHOOSE i \in 1..Len(rows) :
                     /\ \A j \in 1..Len(rows) : Len(rows[j].path) <= Len(rows[i].path)
                     /\ \A j \in 1..(i - 1) : Len(rows[j].path) < Len(rows[i].path)
         IN  <<rows[k]>> \o OrderByPathLengthDesc(SubSeq(rows, 1, k - 1) \o SubSeq(rows, k + 1, Len(rows)))

\* the exact query with its rows newest first
SelectExact_NewestFirst(table, projectId, requestPath, method) ==
    LET Test(m) == /\ m.project_id = projectId
                   /\ m.path = requestPath
                   /\ m.method = method
                   /\ m.is_active = Num(1)
        rows == SelectSeq(table, Test)
    IN  [k \in 1..Len(rows) |-> rows[Len(rows) + 1 - k]]

\* the exact query without its is_active condition
SelectExact_InactiveToo(table, projectId, requestPath, method) ==
    LET Test(m) == /\ m.project_id = projectId
                   /\ m.path = requestPath
                   /\ m.method = method
    IN  SelectSeq(table, Test)

\* SELECT * FROM mocks WHERE project_id = ? AND path = ? AND method = ? AND is_active = 1
SelectExact(table, projectId, requestPath, method) ==
    LET Test(m) == /\ m.project_id = projectId
                   /\ m.path = requestPath
                   /\ m.method = method
                   /\ m.is_active = Num(1)
    IN  SelectSeq(table, Test)

\* SELECT * FROM mocks WHERE project_id = ? AND method = ? AND is_active = 1
\* ORDER BY LENGTH(path) DESC
SelectByMethod(table, projectId, method) ==
    LET Test(m) == /\ m.project_id = projectId
                   /\ m.method = method
                   /\ m.is_active = Num(1)
    IN  OrderByPathLengthDesc(SelectSeq(table, Test))

NoMock == [threw |-> FALSE, found |-> FALSE, mock |-> Null, pathParams |-> EmptyParams]
MockThrew == [threw |-> TRUE, found |-> FALSE, mock |-> Null, pathParams |-> EmptyParams]
FoundMock(m, pp) == [threw |-> FALSE, found |-> TRUE, mock |-> m, pathParams |-> pp]

\* the for loop over allMocks.rows
RECURSIVE ScanTemplates(_, _, _)
ScanTemplates(rows, i, requestPath) ==
    IF i > Len(rows) THEN NoMock
    ELSE IF ~Includes(rows[i].path, <<"{">>) THEN ScanTemplates(rows, i + 1, requestPath)
    ELSE LET result == matchPath(rows[i].path, requestPath)
         IN  IF result.threw THEN MockThrew
             ELSE IF result.isMatch THEN FoundMock(rows[i], result.params)
             ELSE ScanTemplates(rows, i + 1, requestPath)

\* the template scan tried before the exact query
findMatchingMock_TemplatesFirst(table, projectId, requestPath, method) ==
    LET exact == SelectExact(table, projectId, requestPath, method)
        scanned == ScanTemplates(SelectByMethod(table, projectId, method), 1, requestPath)
    IN  IF scanned.threw \/ scanned.found THEN scanned
        ELSE IF Len(exact) > 0 THEN FoundMock(exact[1], EmptyParams)
        ELSE NoMock

findMatchingMock(table, projectId, requestPath, method) ==
    LET exact == SelectExact(table, projectId, requestPath, method)
    IN  IF Len(exact) > 0 THEN FoundMock(exact[1], EmptyParams)
        ELSE ScanTemplates(SelectByMethod(table, projectId, method), 1, requestPath)

(***************************************************************************)
(* Inputs of findMatchingMock.                                             *)
(***************************************************************************)
ProjectIds == {"p1", "p2"}
Methods == {"GET", "POST"}

ResolvePaths ==
    { <<"/", "a">>, <<"/", "{", "a", "}">>, <<"/", "a", "{", "b", "}">>,
      <<"/", "a", "{", "*">>, <<"/", "(", "{", "a", "}">> }

ResolveRequestPaths == { <<"/", "a">>, <<"/", "a", "a">>, <<"/", "{", "a", "}">> }

ResolveRows ==
    [project_id : ProjectIds, path : ResolvePaths, method : Methods,
     is_active : {Num(0), Num(1)}]

\* a table of rows, each with its rowid as mock_id
MockTable(rows) ==
    [k \in 1..Len(rows) |->
        [mock_id |-> k, project_id |-> rows[k].project_id, path |-> rows[k].path,
         method |-> rows[k].method, is_active |-> rows[k].is_active]]

InitResolve ==
    /\ NoRequests /\ NoRows
    /\ \E n \in 0..MaxMocks : \E rows \in [1..n -> ResolveRows] : mocks = MockTable(rows)
    /\ call \in [fn : {"findMatchingMock"}, projectId : ProjectIds,
                 requestPath : ResolveRequestPaths, method : Methods, previous : {Pending}]
    /\ ret = Pending

CallFindMatchingMock ==
    /\ call.fn = "findMatchingMock"
    /\ ret = Pending
    /\ ret' = findMatchingMock(mocks, call.projectId, call.requestPath, call.method)
    /\ UNCHANGED <<call, storeVars, handlerVars>>

\* a second call with the same arguments against the same table; what the
\* first call returned is kept in call.previous
CallFindMatchingMockAgain ==
    /\ call.fn = "findMatchingMock"
    /\ ret # Pending
    /\ call.previous = Pending
    /\ call' = [call EXCEPT !.previous = ret]
    /\ ret' = findMatchingMock(mocks, call.projectId, call.requestPath, call.method)
    /\ UNCHANGED <<storeVars, handlerVars>>

NextResolve == CallFindMatchingMock \/ CallFindMatchingMockAgain

SpecResolve == InitResolve /\ [][NextResolve]_vars

Resolved == call.fn = "findMatchingMock" /\ ret # Pending

\* the active mocks of the project and method of the call
Visible == { m \in Members(mocks) :
               m.project_id = call.projectId /\ m.method = call.method /\ m.is_active = Num(1) }

ExactMatches == { m \in Visible : m.path = call.requestPath }

\* C5: when an active mock of the project has exactly the request path and
\* the method, findMatchingMock returns a mock with that path and method and
\* with empty pathParams, whatever template mocks also match.
C5_ExactMatchWins ==
    (Resolved /\ ExactMatches # {}) =>
        /\ ~ret.threw
        /\ ret.found
        /\ ret.mock \in ExactMatches
        /\ ret.pathParams = EmptyParams

\* an exact match was returned although a longer active template of the same
\* project and method matches the request path too
C5_Witness ==
    /\ Resolved
    /\ ExactMatches # {}
    /\ ret.found
    /\ \E m \in Visible :
          /\ HasPlaceholder(m.path)
          /\ Len(m.path) > Len(ret.mock.path)
          /\ matchPath(m.path, call.requestPath).isMatch

\* the active template mocks of the project and method that match the request path
MatchingTemplates ==
    { m \in Visible : HasPlaceholder(m.path) /\ matchPath(m.path, call.requestPath).isMatch }

\* C6 (as claimed): without an exact match, findMatchingMock returns an active
\* mock of the project and method whose path contains a placeholder and
\* matches the request path, with the extracted params, and no other such
\* mock has a longer path; it returns null exactly when there is no such mock.
C6_LongestMatchingTemplate ==
    (Resolved /\ ExactMatches = {}) =>
        /\ ~ret.threw
        /\ ret.found <=> MatchingTemplates # {}
        /\ ret.found =>
              /\ ret.mock \in MatchingTemplates
              /\ ret.pathParams = matchPath(ret.mock.path, call.requestPath).params
              /\ \A m \in MatchingTemplates : Len(m.path) <= Len(ret.mock.path)

\* row a comes before row b in the template query: longer path first, and
\* among paths of equal length the row stored first
TriedBefore(a, b) ==
    \/ Len(a.path) > Len(b.path)
    \/ Len(a.path) = Len(b.path) /\ a.mock_id < b.mock_id

\* the visible rows whose path holds a "{" and at which the loop stops: the
\* template matches the request path, or compiling it raises
Deciding ==
    { m \in Visible :
         /\ Includes(m.path, <<"{">>)
         /\ LET result == matchPath(m.path, call.requestPath)
            IN  result.threw \/ result.isMatch }

\* what the stored rows determine as the result of the call
ResolvedByStore ==
    IF ExactMatches # {}
    THEN FoundMock(CHOOSE m \in ExactMatches : \A x \in ExactMatches : m.mock_id <= x.mock_id,
                   EmptyParams)
    ELSE IF Deciding = {} THEN NoMock
    ELSE LET m == CHOOSE d \in Deciding : \A x \in Deciding \ {d} : TriedBefore(d, x)
             result == matchPath(m.path, call.requestPath)
         IN  IF result.threw THEN MockThrew ELSE FoundMock(m, result.params)

\* both calls were made
ResolvedTwice == Resolved /\ call.previous # Pending

CorsHeaders ==
    << [key |-> "Access-Control-Allow-Origin", value |-> "*"],
       [key |-> "Access-Control-Allow-Methods", value |-> "GET,POST,PUT,DELETE,PATCH,OPTIONS"],
       [key |-> "Access-Control-Allow-Headers", value |-> "*"] >>

\* header names are case-insensitive
LowerCaseName(name) ==
    CASE name = "Content-Type" -> "content-type"
      [] name = "X-Custom-Header" -> "x-custom-header"
      [] name = "Access-Control-Allow-Origin" -> "access-control-allow-origin"
      [] name = "Access-Control-Allow-Methods" -> "access-control-allow-methods"
      [] name = "Access-Control-Allow-Headers" -> "access-control-allow-headers"
      [] OTHER -> name

\* res.setHeader(key, value)
setHeader(headers, key, value) ==
    [k \in DOMAIN headers \cup {LowerCaseName(key)} |->
        IF k = LowerCaseName(key) THEN value ELSE headers[k]]

\* res.setHeader for every entry, in the order of the entries
RECURSIVE SetHeaders(_, _)
SetHeaders(headers, entries) ==
    IF entries = <<>> THEN headers
    ELSE SetHeaders(setHeader(headers, Head(entries).key, Head(entries).value), Tail(entries))

\* only the first of the three headers set
SetCorsHeaders_OriginOnly(headers) ==
    setHeader(headers, CorsHeaders[1].key, CorsHeaders[1].value)

\* the three res.setHeader calls that open the handler
SetCorsHeaders(headers) == SetHeaders(headers, CorsHeaders)

\* a JSON object that holds strings, as the list of its entries in insertion order
HeaderMap(entries) == [t |-> "object", entries |-> entries]

\* headers[key] is truthy
Truthy(entries, key) ==
    \E k \in 1..Len(entries) : entries[k].key = key /\ entries[k].value # ""

\* headers[key] = value
SetEntry(entries, key, value) ==
    IF \E k \in 1..Len(entries) : entries[k].key = key
    THEN [k \in 1..Len(entries) |->
             IF entries[k].key = key THEN [key |-> key, value |-> value] ELSE entries[k]]
    ELSE Append(entries, [key |-> key, value |-> value])

\* typeMap[mock.response_type] || 'application/json'
TypeMap(response_type) ==
    CASE response_type = "json" -> "application/json"
      [] response_type = "xml" -> "application/xml"
      [] response_type = "text" -> "text/plain"
      [] response_type = "html" -> "text/html"
      [] OTHER -> "application/json"

\* String.prototype.toUpperCase on a method name
ToUpperCase(method) ==
    CASE method = "get" -> "GET"
      [] method = "post" -> "POST"
      [] method = "options" -> "OPTIONS"
      [] OTHER -> method

\* the end of the first segment of a path: what /^\/[^/]+/ matches, 0 when it does not
RECURSIVE SegmentEnd(_, _)
SegmentEnd(path, i) ==
    IF i < Len(path) /\ path[i + 1] # "/" THEN SegmentEnd(path, i + 1) ELSE i

FirstSegmentEnd(path) ==
    IF Len(path) >= 2 /\ path[1] = "/" /\ path[2] # "/" THEN SegmentEnd(path, 2) ELSE 0

\* req.params.projectSlug
ProjectSlugOf(path) == Slice(path, 2, FirstSegmentEnd(path))

\* req.path.replace(/^\/[^/]+/, '') || '/'
MockPathOf(path) ==
    LET rest == Slice(path, FirstSegmentEnd(path) + 1, Len(path))
    IN  IF rest = <<>> THEN <<"/">> ELSE rest

\* the route of the router a path is dispatched to
RouteOf(path) ==
    IF FirstSegmentEnd(path) > 0 /\ FirstSegmentEnd(path) < Len(path)
    THEN "/:projectSlug/{*path}" ELSE "/:projectSlug"

\* the body res.json sends
Json(error, message) == [t |-> "json", error |-> error, message |-> message]

\* res.status(status).send(body) and res.status(status).json(body)
Emit(rs, status, body) ==
    [rs EXCEPT !.emitted = Append(@, [status |-> status, headers |-> rs.headers, body |-> body])]

Finish(h, outcome) == [h EXCEPT !.pc = "done", !.outcome = outcome]

\* Math.random() was not called
NotDrawn == -1

\* the handler of a request as it starts
NewHandler(req) ==
    [pc |-> "start", req |-> req, project |-> Null, mock |-> Null, pathParams |-> EmptyParams,
     response |-> Null, random |-> NotDrawn, outcome |-> "none", failed |-> FALSE,
     writes |-> 0]

NewRes == [headers |-> <<>>, emitted |-> <<>>]

\* logRequest up to its await: the INSERT is issued.  sent is the number of
\* responses the request has sent through res when logRequest is called.
LogRow(h, mockId, projectId, responseStatus) ==
    [request |-> h.req.id, sent |-> Len(res[h.req.id].emitted),
     row |-> [mock_id |-> mockId, project_id |-> projectId, request_path |-> h.req.path,
              request_method |-> h.req.method, response_status |-> responseStatus]]

\* a catch block that emits nothing
InternalError_EmitsNothing(r, h) ==
    /\ handler' = [handler EXCEPT ![r] = Finish(h, "INTERNAL_ERROR")]
    /\ UNCHANGED <<res, logWrites, storeVars, callVars>>

\* the catch block of the handler
InternalError(r, h) ==
    /\ handler' = [handler EXCEPT ![r] = Finish(h, "INTERNAL_ERROR")]
    /\ res' = [res EXCEPT ![r] = Emit(@, Num(500),
                  Json("INTERNAL_ERROR", <<"An error occurred while processing the mock request">>))]
    /\ UNCHANGED <<logWrites, storeVars, callVars>>

\* router.all('/:projectSlug', ...)
HandleSlugOnly(r) ==
    /\ handler[r].pc = "start"
    /\ RouteOf(handler[r].req.path) = "/:projectSlug"
    /\ handler' = [handler EXCEPT ![r] = Finish(@, "INVALID_REQUEST")]
    /\ res' = [res EXCEPT ![r] = Emit(@, Num(400),
                  Json("INVALID_REQUEST", <<"Please include a path after the project slug">>))]
    /\ UNCHANGED <<logWrites, storeVars, callVars>>

\* a handler without the OPTIONS branch
BeginExecution_NoPreflight(r) ==
    /\ handler[r].pc = "start"
    /\ RouteOf(handler[r].req.path) = "/:projectSlug/{*path}"
    /\ handler' = [handler EXCEPT ![r].pc = "find_project"]
    /\ res' = [res EXCEPT ![r] = [res[r] EXCEPT !.headers = SetCorsHeaders(@)]]
    /\ UNCHANGED <<logWrites, storeVars, callVars>>

\* router.all('/:projectSlug/{*path}', ...) up to its first await
BeginExecution(r) ==
    /\ handler[r].pc = "start"
    /\ RouteOf(handler[r].req.path) = "/:projectSlug/{*path}"
    /\ LET cors == [res[r] EXCEPT !.headers = SetCorsHeaders(@)]
       IN  IF ToUpperCase(handler[r].req.method) = "OPTIONS"
           THEN /\ handler' = [handler EXCEPT ![r] = Finish(@, "OPTIONS")]
                /\ res' = [res EXCEPT ![r] = Emit(cors, Num(204), Undefined)]
           ELSE /\ handler' = [handler EXCEPT ![r].pc = "find_project"]
                /\ res' = [res EXCEPT ![r] = cors]
    /\ UNCHANGED <<logWrites, storeVars, callVars>>

\* SELECT * FROM projects WHERE slug = ?
ProjectLookup(r) ==
    /\ handler[r].pc = "find_project"
    /\ LET projectSlug == ProjectSlugOf(handler[r].req.path)
           HasSlug(p) == p.slug = projectSlug
           rows == SelectSeq(projects, HasSlug)
       IN  IF rows = <<>>
           THEN /\ handler' = [handler EXCEPT ![r] = Finish(@, "PROJECT_NOT_FOUND")]
                /\ res' = [res EXCEPT ![r] = Emit(@, Num(404),
                              Json("PROJECT_NOT_FOUND", <<"No project found with slug", projectSlug>>))]
           ELSE /\ handler' = [handler EXCEPT ![r].pc = "exact_match", ![r].project = rows[1]]
                /\ UNCHANGED res
    /\ UNCHANGED <<logWrites, storeVars, callVars>>

\* turso.execute rejects
LookupFails(r) ==
    /\ handler[r].pc \in {"find_project", "exact_match", "template_match", "list_responses"}
    /\ InternalError(r, [handler[r] EXCEPT !.failed = TRUE])

\* findMatchingMock: the exact query
ExactLookup(r) ==
    /\ handler[r].pc = "exact_match"
    /\ LET h == handler[r]
           exact == SelectExact(mocks, h.project.project_id, MockPathOf(h.req.path),
                                ToUpperCase(h.req.method))
       IN  handler' = [handler EXCEPT ![r] =
               IF Len(exact) > 0
               THEN [h EXCEPT !.pc = "list_responses", !.mock = exact[1], !.pathParams = EmptyParams]
               ELSE [h EXCEPT !.pc = "template_match"]]
    /\ UNCHANGED <<res, logWrites, storeVars, callVars>>

\* what the handler does with the result of the template scan: when there
\* is no match, it calls logRequest and awaits it
AfterTemplateScan(r, h, match) ==
    IF match.threw THEN InternalError(r, h)
    ELSE IF match.found
    THEN /\ handler' = [handler EXCEPT ![r] =
                [h EXCEPT !.pc = "list_responses", !.mock = match.mock,
                          !.pathParams = match.pathParams]]
         /\ UNCHANGED <<res, logWrites, storeVars, callVars>>
    ELSE /\ handler' = [handler EXCEPT ![r] =
                [h EXCEPT !.pc = "await_log", !.writes = @ + 1]]
         /\ logWrites' = logWrites \cup {LogRow(h, Null, h.project.project_id, Num(404))}
         /\ UNCHANGED <<res, storeVars, callVars>>

\* findMatchingMock: the template query and the loop over its rows
TemplateLookup(r) ==
    /\ handler[r].pc = "template_match"
    /\ AfterTemplateScan(r, handler[r],
           ScanTemplates(SelectByMethod(mocks, handler[r].project.project_id,
                                        ToUpperCase(handler[r].req.method)),
                         1, MockPathOf(handler[r].req.path)))

\* the awaited logRequest has returned
MockNotFound(r) ==
    /\ handler[r].pc = "await_log"
    /\ ~\E w \in logWrites : w.request = r
    /\ handler' = [handler EXCEPT ![r] = Finish(@, "MOCK_NOT_FOUND")]
    /\ res' = [res EXCEPT ![r] = Emit(@, Num(404),
                  Json("MOCK_NOT_FOUND", <<"No mock found for", ToUpperCase(handler[r].req.method),
                                           MockPathOf(handler[r].req.path)>>))]
    /\ UNCHANGED <<logWrites, storeVars, callVars>>

\* res.status(code) accepts an integer from 100 to 999 and raises otherwise
ValidStatusCode(code) == code.t = "number" /\ code.v >= 100 /\ code.v <= 999

\* steps 5 to 7 of the handler: headers, log, send; when res.status raises,
\* the catch block sends the 500 on the headers already set
SendSelected(r, h) ==
    LET response == h.response
        parsed == JsonParse(response.headers)
        headers == IF response.headers.t = "string"
                   THEN (IF parsed.threw THEN HeaderMap(<<>>) ELSE parsed.value)
                   ELSE HeaderMap(<<>>)
    IN  IF headers = Null THEN InternalError(r, h)
        ELSE LET typed == IF ~Truthy(headers.entries, "Content-Type")
                               /\ ~Truthy(headers.entries, "content-type")
                          THEN SetEntry(headers.entries, "Content-Type", TypeMap(h.mock.response_type))
                          ELSE headers.entries
                 body == IF response.body = Null \/ response.body = Str(<<>>)
                         THEN Str(<<>>) ELSE response.body
             IN  /\ handler' = [handler EXCEPT ![r] =
                        Finish([h EXCEPT !.writes = @ + 1],
                               IF ValidStatusCode(response.status_code)
                               THEN "success" ELSE "INTERNAL_ERROR")]
                 /\ logWrites' = logWrites \cup
                        {LogRow(h, h.mock.mock_id, h.project.project_id, response.status_code)}
                 /\ res' = [res EXCEPT ![r] =
                        IF ValidStatusCode(response.status_code)
                        THEN Emit([@ EXCEPT !.headers = SetHeaders(@, typed)],
                                  response.status_code, body)
                        ELSE Emit([@ EXCEPT !.headers = SetHeaders(@, typed)], Num(500),
                                  Json("INTERNAL_ERROR",
                                       <<"An error occurred while processing the mock request">>))]
                 /\ UNCHANGED <<storeVars, callVars>>

\* SELECT * FROM mock_responses WHERE mock_id = ? ORDER BY is_default DESC, created_at ASC
SelectResponses(table, mockId) ==
    LET IsDefault(x) == x.mock_id = mockId /\ x.is_default = Num(1)
        IsOther(x) == x.mock_id = mockId /\ x.is_default # Num(1)
    IN  SelectSeq(table, IsDefault) \o SelectSeq(table, IsOther)

\* mock.response_delay_ms || 0
DelayOf(mock) == IF mock.response_delay_ms.t = "number" THEN mock.response_delay_ms.v ELSE 0

\* a handler that keeps the selected response in a variable of the module:
\* a request that selects while another waits in its delay continues with
\* the response the other one selected
AfterPick_SharedSelection(r, h, picked) ==
    LET waiting == { q \in DOMAIN handler \ {r} : handler[q].pc = "delay" }
        shared == IF waiting = {} THEN picked.value
                  ELSE handler[CHOOSE q \in waiting : TRUE].response
    IN  IF picked.threw THEN InternalError(r, h)
        ELSE IF picked.value = Null
        THEN /\ handler' = [handler EXCEPT ![r] = Finish(h, "NO_RESPONSE_DEFINED")]
             /\ res' = [res EXCEPT ![r] = Emit(@, Num(404),
                           Json("NO_RESPONSE_DEFINED", <<"This mock has no responses configured">>))]
             /\ UNCHANGED <<logWrites, storeVars, callVars>>
        ELSE IF DelayOf(h.mock) > 0
        THEN /\ handler' = [handler EXCEPT ![r] = [h EXCEPT !.pc = "delay", !.response = shared]]
             /\ UNCHANGED <<res, logWrites, storeVars, callVars>>
        ELSE SendSelected(r, [h EXCEPT !.response = shared])

\* what the handler does with what pickResponse returned, until its next await
AfterPick(r, h, picked) ==
    IF picked.threw THEN InternalError(r, h)
    ELSE IF picked.value = Null
    THEN /\ handler' = [handler EXCEPT ![r] = Finish(h, "NO_RESPONSE_DEFINED")]
         /\ res' = [res EXCEPT ![r] = Emit(@, Num(404),
                       Json("NO_RESPONSE_DEFINED", <<"This mock has no responses configured">>))]
         /\ UNCHANGED <<logWrites, storeVars, callVars>>
    ELSE IF DelayOf(h.mock) > 0
    THEN /\ handler' = [handler EXCEPT ![r] =
                [h EXCEPT !.pc = "delay", !.response = picked.value]]
         /\ UNCHANGED <<res, logWrites, storeVars, callVars>>
    ELSE SendSelected(r, [h EXCEPT !.response = picked.value])

\* what Math.random() returned in pickResponse, NotDrawn when pickResponse
\* returns or raises before it calls Math.random()
DrawnFrom(candidates, random) ==
    IF Len(candidates) = 1 \/ TotalWeight(candidates) = 0 THEN NotDrawn ELSE random

DrawnAfter(parts, responses, random) ==
    IF parts.threw THEN NotDrawn
    ELSE DrawnFrom(Candidates(ChoosePool(parts.conditionalMatches, parts.unconditioned),
                              responses), random)

DrawOf(responses, req, pathParams, random) ==
    IF Len(responses) < 2 THEN NotDrawn
    ELSE DrawnAfter(Partition(responses, 1, req, pathParams, <<>>, <<>>), responses, random)

\* the response listing and pickResponse
ListResponses(r) ==
    /\ handler[r].pc = "list_responses"
    /\ \E random \in 0..(RandomGrid - 1) :
          AfterPick(r,
              [handler[r] EXCEPT !.random =
                  DrawOf(SelectResponses(mock_responses, handler[r].mock.mock_id),
                         handler[r].req, handler[r].pathParams, random)],
              pickResponse(SelectResponses(mock_responses, handler[r].mock.mock_id),
                           handler[r].req, handler[r].pathParams, random))

\* the timer of the delay fires
DelayElapsed(r) ==
    /\ handler[r].pc = "delay"
    /\ SendSelected(r, handler[r])

\* an issued INSERT reaches the table
LogWriteCompletes ==
    /\ \E w \in logWrites :
          /\ request_logs' = Append(request_logs, w.row)
          /\ logWrites' = logWrites \ {w}
    /\ UNCHANGED <<projects, mocks, mock_responses, handler, res, callVars>>

\* a rejected INSERT issued once more
LogWriteFails_Retries ==
    /\ \E w \in logWrites :
          /\ handler' = [handler EXCEPT ![w.request].writes = @ + 1]
          /\ logWrites' = logWrites
    /\ UNCHANGED <<storeVars, res, callVars>>

\* a rejected INSERT whose rejection reaches the handler that awaits it
LogWriteFails_Propagates ==
    \E w \in logWrites :
        IF handler[w.request].pc = "await_log"
        THEN /\ handler' = [handler EXCEPT ![w.request] = Finish(@, "INTERNAL_ERROR")]
             /\ res' = [res EXCEPT ![w.request] = Emit(@, Num(500),
                           Json("INTERNAL_ERROR", <<"An error occurred while processing the mock request">>))]
             /\ logWrites' = logWrites \ {w}
             /\ UNCHANGED <<storeVars, callVars>>
        ELSE /\ logWrites' = logWrites \ {w}
             /\ UNCHANGED <<storeVars, handler, res, callVars>>

\* an issued INSERT is rejected; logRequest catches and reports it
LogWriteFails ==
    /\ \E w \in logWrites : logWrites' = logWrites \ {w}
    /\ UNCHANGED <<storeVars, handler, res, callVars>>

(***************************************************************************)
(* The store a request is executed against, and the requests.  Project p1  *)
(* (slug "p") holds at most one mock, m1, whose path, activity, type,      *)
(* delay and responses vary; project p2 (slug "q") holds mock m2 with one  *)
(* response.  Header names are ones HTTP accepts; a status code is any     *)
(* number the write side stores, 1000 included.                            *)
(***************************************************************************)
Projects ==
    << [project_id |-> "p1", slug |-> <<"p">>], [project_id |-> "p2", slug |-> <<"q">>] >>

StoredPaths == { <<"/", "a">>, <<"/", "{", "k", "}">>, <<"/", "(", "{", "k", "}">> }

StoredMockRows ==
    [path : StoredPaths, is_active : {Num(0), Num(1)}, response_type : {"json", "text"},
     response_delay_ms : {Num(0), Num(1)}]

StoredMock(row) ==
    [mock_id |-> "m1", project_id |-> "p1", path |-> row.path, method |-> "GET",
     is_active |-> row.is_active, response_type |-> row.response_type,
     response_delay_ms |-> row.response_delay_ms]

OtherMock ==
    [mock_id |-> "m2", project_id |-> "p2", path |-> <<"/", "a">>, method |-> "GET",
     is_active |-> Num(1), response_type |-> "json", response_delay_ms |-> Num(0)]

NoConditions == JsonText(Arr(<<>>))
NoHeaders == JsonText(HeaderMap(<<>>))

StoredResponseRows ==
    { [status_code |-> Num(200), headers |-> NoHeaders, body |-> Str(<<"h", "i">>),
       conditions |-> NoConditions, weight |-> Num(1), is_default |-> Num(1)],
      [status_code |-> Num(404),
       headers |-> JsonText(HeaderMap(<<[key |-> "X-Custom-Header", value |-> "v"]>>)),
       body |-> Str(<<>>), conditions |-> JsonText(Arr(<<HeaderIsA>>)),
       weight |-> Num(1), is_default |-> Num(0)],
      [status_code |-> Num(201), headers |-> NotJson, body |-> Str(<<"h", "i">>),
       conditions |-> NotJson, weight |-> Num(0), is_default |-> Num(0)],
      [status_code |-> Num(200), headers |-> JsonText(Null), body |-> Str(<<"h", "i">>),
       conditions |-> NoConditions, weight |-> Num(1), is_default |-> Num(0)],
      [status_code |-> Num(200),
       headers |-> JsonText(HeaderMap(<<[key |-> "Content-Type", value |-> ""]>>)),
       body |-> Str(<<"h", "i">>), conditions |-> NoConditions,
       weight |-> Num(1), is_default |-> Num(0)],
      [status_code |-> Num(200),
       headers |-> JsonText(HeaderMap(<<[key |-> "content-type", value |-> "text/csv"],
                                        [key |-> "Access-Control-Allow-Origin", value |-> "x"]>>)),
       body |-> Str(<<>>), conditions |-> JsonText(Arr(<<PathIsA>>)),
       weight |-> Num(2), is_default |-> Num(0)],
      [status_code |-> Num(1000), headers |-> NoHeaders, body |-> Str(<<"h", "i">>),
       conditions |-> NoConditions, weight |-> Num(1), is_default |-> Num(0)] }

\* the rows as responses of mock m1, in the order they were created
StoredResponses(rows) ==
    [k \in 1..Len(rows) |->
        [response_id |-> k, mock_id |-> "m1", status_code |-> rows[k].status_code,
         headers |-> rows[k].headers, body |-> rows[k].body,
         conditions |-> rows[k].conditions, weight |-> rows[k].weight,
         is_default |-> rows[k].is_default]]

OtherResponse ==
    [response_id |-> 0, mock_id |-> "m2", status_code |-> Num(200), headers |-> NoHeaders,
     body |-> Str(<<"q">>), conditions |-> NoConditions, weight |-> Num(1), is_default |-> Num(1)]

RequestHeaders == { EmptyObject, <<"k">> :> Str(<<"a">>) }

HandlerRequests ==
    { [NoRequestData EXCEPT !.headers = hd] @@ [method |-> "GET", path |-> <<"/", "p">> \o rest] :
          hd \in RequestHeaders, rest \in { <<"/", "a">>, <<"/", "b">>, <<"/">> } }
    \cup { NoRequestData @@ [method |-> m, path |-> pt] :
              m \in {"POST", "OPTIONS"}, pt \in { <<"/", "p", "/", "a">> } }
    \cup { NoRequestData @@ [method |-> "GET", path |-> pt] :
              pt \in { <<"/", "g", "/", "a">>, <<"/", "p">> } }
    \cup { NoRequestData @@ [method |-> "OPTIONS", path |-> pt] :
              pt \in { <<"/", "g", "/", "a">>, <<"/", "p", "/", "b">>, <<"/", "p">> } }

RequestIds == {"r1"}

Init ==
    /\ call = [fn |-> "none"]
    /\ ret = Pending
    /\ projects = Projects
    /\ request_logs = <<>>
    /\ logWrites = {}
    /\ \/ mocks = <<OtherMock>> /\ mock_responses = <<OtherResponse>>
       \/ \E m \in StoredMockRows, n \in 0..MaxStoredResponses :
             \E rows \in [1..n -> StoredResponseRows] :
                /\ mocks = <<StoredMock(m), OtherMock>>
                /\ mock_responses = StoredResponses(rows) \o <<OtherResponse>>
    /\ \E reqs \in [RequestIds -> HandlerRequests] :
          /\ handler = [r \in RequestIds |-> NewHandler(reqs[r] @@ [id |-> r])]
          /\ res = [r \in RequestIds |-> NewRes]

Next ==
    \/ \E r \in RequestIds :
          \/ HandleSlugOnly(r)
          \/ BeginExecution(r)
          \/ ProjectLookup(r)
          \/ ExactLookup(r)
          \/ TemplateLookup(r)
          \/ MockNotFound(r)
          \/ ListResponses(r)
          \/ DelayElapsed(r)
          \/ LookupFails(r)
    \/ LogWriteCompletes
    \/ LogWriteFails

Spec == Init /\ [][Next]_vars

(***************************************************************************)
(* Claims about the handler.                                               *)
(***************************************************************************)
IsError(e, status, code) == e.status = Num(status) /\ e.body.t = "json" /\ e.body.error = code

\* the entries of the header map stored on a response, none when it holds no map
StoredHeaderEntries(response) ==
    IF response = Null THEN <<>>
    ELSE IF response.headers.t # "string" \/ JsonParse(response.headers).threw THEN <<>>
    ELSE IF JsonParse(response.headers).value.t # "object" THEN <<>>
    ELSE JsonParse(response.headers).value.entries

\* C2 (as claimed): a finished non-OPTIONS request to /{slug}/{path} whose
\* store lookups all succeeded has emitted exactly one response: 404
\* PROJECT_NOT_FOUND when no project has the slug, else 404 MOCK_NOT_FOUND when
\* the resolver finds no mock, else 404 NO_RESPONSE_DEFINED when the mock has
\* no responses, else a success emit carrying one of the mock's responses.
C2_OneClassifiedResponse ==
    \A r \in DOMAIN handler :
        LET h == handler[r]
            path == h.req.path
            method == ToUpperCase(h.req.method)
            e == res[r].emitted
            owners == { p \in Members(projects) : p.slug = ProjectSlugOf(path) }
            project == CHOOSE p \in owners : TRUE
            resolved == findMatchingMock(mocks, project.project_id, MockPathOf(path), method)
            stored == { x \in Members(mock_responses) : x.mock_id = resolved.mock.mock_id }
        IN  (/\ h.pc = "done"
             /\ RouteOf(path) = "/:projectSlug/{*path}"
             /\ method # "OPTIONS"
             /\ ~h.failed) =>
                /\ Len(e) = 1
                /\ IF owners = {} THEN IsError(e[1], 404, "PROJECT_NOT_FOUND")
                   ELSE IF ~resolved.found THEN IsError(e[1], 404, "MOCK_NOT_FOUND")
                   ELSE IF stored = {} THEN IsError(e[1], 404, "NO_RESPONSE_DEFINED")
                   ELSE /\ h.outcome = "success"
                        /\ h.response \in stored
                        /\ e[1].status = h.response.status_code

\* C3 (as claimed): a success emit has the stored status code and the stored
\* body string of the selected response, and every stored header key with
\* its stored value.
C3_SuccessEmitIsAsStored ==
    \A r \in DOMAIN handler :
        handler[r].outcome = "success" =>
            LET response == handler[r].response
                e == res[r].emitted[Len(res[r].emitted)]
                stored == StoredHeaderEntries(response)
            IN  /\ e.status = response.status_code
                /\ e.body = (IF response.body = Null THEN Str(<<>>) ELSE response.body)
                /\ \A k \in 1..Len(stored) :
                      /\ LowerCaseName(stored[k].key) \in DOMAIN e.headers
                      /\ e.headers[LowerCaseName(stored[k].key)] = stored[k].value

\* the names of the stored header entries, lower-cased
StoredHeaderNames(response) ==
    { LowerCaseName(StoredHeaderEntries(response)[k].key) :
         k \in 1..Len(StoredHeaderEntries(response)) }

LogSettles(r) == \E w \in logWrites : w.request = r /\ w \notin logWrites'
LogFails(r) == LogSettles(r) /\ request_logs' = request_logs

\* the three CORS headers as the response carries them
CorsOnly ==
    ("access-control-allow-origin" :> "*")
    @@ ("access-control-allow-methods" :> "GET,POST,PUT,DELETE,PATCH,OPTIONS")
    @@ ("access-control-allow-headers" :> "*")

\* the 404 of a request for which no mock was found
NotFoundResponse(req) ==
    [status |-> Num(404), headers |-> CorsOnly,
     body |-> Json("MOCK_NOT_FOUND",
                   <<"No mock found for", ToUpperCase(req.method), MockPathOf(req.path)>>)]

\* C17: a failing request-log write never changes the HTTP response: the step
\* in which a log write settles, failing or not, changes neither what the
\* request has emitted nor its outcome; the response emitted after an awaited
\* write is the same 404 MOCK_NOT_FOUND whether the write failed or not; and
\* no request that awaited its log write ends INTERNAL_ERROR.
C17_LogFailureLeavesResponse ==
    /\ [][\A r \in RequestIds :
             LogSettles(r) => (res'[r] = res[r] /\ handler'[r] = handler[r])]_vars
    /\ [](\A r \in RequestIds :
             /\ handler[r].outcome = "MOCK_NOT_FOUND" =>
                    res[r].emitted = <<NotFoundResponse(handler[r].req)>>
             /\ (handler[r].writes > 0 /\ handler[r].response = Null) =>
                    handler[r].outcome # "INTERNAL_ERROR")

\* a request has emitted the selected response 200 "hi", and its log write
\* has failed: no write is in flight and no row has reached the table
C17_Witness ==
    \E r \in RequestIds :
        /\ handler[r].outcome = "success"
        /\ handler[r].writes = 1
        /\ logWrites = {} /\ request_logs = <<>>
        /\ Len(res[r].emitted) = 1
        /\ res[r].emitted[1].status = Num(200)
        /\ res[r].emitted[1].body = Str(<<"h", "i">>)

(***************************************************************************)
(* The event loop runs every continuation that is ready: a handler whose   *)
(* awaited lookup, timer or logRequest call has settled takes its next     *)
(* step.  Nothing obliges the store to settle a log INSERT.                *)
(***************************************************************************)
\* a process that sleeps through a delay: no continuation of another request
\* runs while a request waits for its timer
HandlerStep_BlockedByTimer(r) ==
    /\ \A q \in DOMAIN handler \ {r} : handler[q].pc # "delay"
    /\ \/ HandleSlugOnly(r)
       \/ BeginExecution(r)
       \/ ProjectLookup(r)
       \/ ExactLookup(r)
       \/ TemplateLookup(r)
       \/ MockNotFound(r)
       \/ ListResponses(r)
       \/ DelayElapsed(r)

HandlerStep(r) ==
    \/ HandleSlugOnly(r)
    \/ BeginExecution(r)
    \/ ProjectLookup(r)
    \/ ExactLookup(r)
    \/ TemplateLookup(r)
    \/ MockNotFound(r)
    \/ ListResponses(r)
    \/ DelayElapsed(r)

\* the stores whose mock m1 is active, at path /a, with at most one response
UnsettledMockRows ==
    { m \in StoredMockRows :
        m.path = <<"/", "a">> /\ m.is_active = Num(1) /\ m.response_type = "json" }

InitLogUnsettled ==
    /\ call = [fn |-> "none"]
    /\ ret = Pending
    /\ projects = Projects
    /\ request_logs = <<>>
    /\ logWrites = {}
    /\ \E m \in UnsettledMockRows, rows \in {<<>>} \cup {<<x>> : x \in StoredResponseRows} :
          /\ mocks = <<StoredMock(m), OtherMock>>
          /\ mock_responses = StoredResponses(rows) \o <<OtherResponse>>
    /\ \E reqs \in [RequestIds -> HandlerRequests] :
          /\ handler = [r \in RequestIds |-> NewHandler(reqs[r] @@ [id |-> r])]
          /\ res = [r \in RequestIds |-> NewRes]

SpecLogUnsettled ==
    InitLogUnsettled /\ [][Next]_vars /\ \A r \in RequestIds : WF_vars(HandlerStep(r))

\* C16: on every path that writes a request log the response is emitted
\* without waiting for the log write: once a request has issued its log
\* write, its response is emitted, even if the write never completes.
C16_EmitDoesNotWaitForLog ==
    \A r \in RequestIds :
        (handler[r].writes = 1) ~> (Len(res[r].emitted) = 1)

\* C18: when the project lookup, either mock lookup or the response listing
\* raises, the handler ends having emitted exactly one response, the 500
\* INTERNAL_ERROR with the three CORS headers, and nothing else of the request
\* is emitted or written.
C18_LookupFailureGives500 ==
    \A r \in RequestIds :
        handler[r].failed =>
            /\ handler[r].pc = "done"
            /\ handler[r].outcome = "INTERNAL_ERROR"
            /\ Len(res[r].emitted) = 1
            /\ IsError(res[r].emitted[1], 500, "INTERNAL_ERROR")
            /\ res[r].emitted[1].headers = CorsOnly

\* the response listing of a resolved mock has raised, and the 500 was emitted
C18_Witness ==
    \E r \in RequestIds :
        /\ handler[r].failed
        /\ handler[r].mock # Null
        /\ handler[r].response = Null
        /\ IsError(res[r].emitted[1], 500, "INTERNAL_ERROR")

\* a request with a slug and a path whose method is OPTIONS
IsPreflight(req) ==
    ToUpperCase(req.method) = "OPTIONS" /\ RouteOf(req.path) = "/:projectSlug/{*path}"

\* C19: an OPTIONS request to a slug and a path is answered with an empty 204
\* whether or not the project or a mock exists: its handler goes from its
\* start to its end in one step, without a project, mock or response
\* lookup, without a failure of one, and without a log write.
C19_OptionsAnsweredAtOnce ==
    \A r \in RequestIds :
        IsPreflight(handler[r].req) =>
            /\ handler[r].pc \in {"start", "done"}
            /\ handler[r].project = Null /\ handler[r].mock = Null
            /\ handler[r].response = Null
            /\ ~handler[r].failed
            /\ handler[r].writes = 0
            /\ \A w \in logWrites : w.request # r
            /\ handler[r].pc = "start" => res[r].emitted = <<>>
            /\ handler[r].pc = "done" =>
                  /\ handler[r].outcome = "OPTIONS"
                  /\ Len(res[r].emitted) = 1
                  /\ res[r].emitted[1].status = Num(204)
                  /\ res[r].emitted[1].body = Undefined

\* an OPTIONS request under a slug that no project has was answered 204
C19_Witness ==
    \E r \in RequestIds :
        /\ IsPreflight(handler[r].req)
        /\ \A p \in Members(projects) : p.slug # ProjectSlugOf(handler[r].req.path)
        /\ handler[r].pc = "done"
        /\ res[r].emitted[1].status = Num(204)

\* mock is a stored, active mock of project p for the method
Serves(mock, p, method) ==
    /\ mock \in Members(mocks)
    /\ mock.is_active = Num(1)
    /\ mock.project_id = p.project_id
    /\ mock.method = method

\* the projects that have the slug of the request
Owners(req) == { p \in Members(projects) : p.slug = ProjectSlugOf(req.path) }

\* C20: findMatchingMock never returns an inactive mock, a mock of another
\* project, or a mock whose stored method is not the upper-cased request
\* method; so the mock a request under a slug resolves to is an active mock
\* of that slug's project, and the response emitted for it is a stored
\* response of that mock.
C20_ResolvedMockServesRequest ==
    \A r \in RequestIds :
        LET h == handler[r]
            method == ToUpperCase(h.req.method)
        IN  /\ \A p \in Members(projects) :
                  LET m == findMatchingMock(mocks, p.project_id, MockPathOf(h.req.path), method)
                  IN  m.found => Serves(m.mock, p, method)
            /\ h.mock # Null => \E p \in Owners(h.req) : Serves(h.mock, p, method)
            /\ h.outcome = "success" =>
                  /\ h.mock # Null
                  /\ h.response \in Members(mock_responses)
                  /\ h.response.mock_id = h.mock.mock_id
                  /\ res[r].emitted[1].status = h.response.status_code

\* a request has ended MOCK_NOT_FOUND although its project holds an inactive
\* mock with the requested path and method, and another project an active one
C20_Witness ==
    \E r \in RequestIds :
        /\ handler[r].outcome = "MOCK_NOT_FOUND"
        /\ \E p \in Owners(handler[r].req), m \in Members(mocks) :
              /\ m.project_id = p.project_id
              /\ m.path = MockPathOf(handler[r].req.path)
              /\ m.method = ToUpperCase(handler[r].req.method)
              /\ m.is_active = Num(0)
        /\ \E m \in Members(mocks) :
              /\ m.project_id \notin { p.project_id : p \in Owners(handler[r].req) }
              /\ m.path = MockPathOf(handler[r].req.path)
              /\ m.method = ToUpperCase(handler[r].req.method)
              /\ m.is_active = Num(1)

(***************************************************************************)
(* Two requests in flight.  The process runs one continuation at a time,   *)
(* so the steps of the two handlers and the settling of their log writes   *)
(* interleave at the awaits.  Mock m1 of project p1 is active at /a with   *)
(* no response, one response, or two unconditioned responses of weight 1;  *)
(* m2 of project p2 answers without a delay.                               *)
(***************************************************************************)
ConcurrentIds == {"r1", "r2"}

\* two responses between which the draw decides: 200 "hi" and one whose
\* status code is 1000
ConcurrentPair ==
    << CHOOSE x \in StoredResponseRows : x.is_default = Num(1),
       CHOOSE x \in StoredResponseRows : x.status_code = Num(1000) >>

ConcurrentRequests ==
    { NoRequestData @@ [method |-> m, path |-> pt] :
          m \in {"GET"},
          pt \in { <<"/", "p", "/", "a">>, <<"/", "p", "/", "b">>, <<"/", "q", "/", "a">>,
                   <<"/", "g", "/", "a">>, <<"/", "p">> } }
    \cup { NoRequestData @@ [method |-> "OPTIONS", path |-> <<"/", "p", "/", "a">>] }

InitConcurrent ==
    /\ call = [fn |-> "none"]
    /\ ret = Pending
    /\ projects = Projects
    /\ request_logs = <<>>
    /\ logWrites = {}
    /\ \E m \in UnsettledMockRows,
          rows \in {<<>>, ConcurrentPair} \cup {<<x>> : x \in StoredResponseRows} :
          /\ mocks = <<StoredMock(m), OtherMock>>
          /\ mock_responses = StoredResponses(rows) \o <<OtherResponse>>
    /\ \E reqs \in [ConcurrentIds -> ConcurrentRequests] :
          /\ handler = [r \in ConcurrentIds |-> NewHandler(reqs[r] @@ [id |-> r])]
          /\ res = [r \in ConcurrentIds |-> NewRes]

NextConcurrent ==
    \/ \E r \in ConcurrentIds :
          \/ HandleSlugOnly(r)
          \/ BeginExecution(r)
          \/ ProjectLookup(r)
          \/ ExactLookup(r)
          \/ TemplateLookup(r)
          \/ MockNotFound(r)
          \/ ListResponses(r)
          \/ DelayElapsed(r)
          \/ LookupFails(r)
    \/ LogWriteCompletes
    \/ LogWriteFails

SpecConcurrent == InitConcurrent /\ [][NextConcurrent]_vars

\* request r waits for the timer of its delay
Delayed(r) == handler[r].pc = "delay"

\* the log write of request r has reached the table
Logged(r) ==
    \E k \in 1..Len(request_logs) :
        /\ request_logs[k].request_path = handler[r].req.path
        /\ request_logs[k].request_method = handler[r].req.method

\* C21: a response delay suspends only its own request: while a request waits
\* in its delay, every other unfinished request can take its next step (a
\* request that awaits its log write can take it once the write settles, and
\* the write can settle), and every issued log write can reach the table.
C21_DelaySuspendsOnlyItsRequest ==
    \A r \in ConcurrentIds : \A q \in ConcurrentIds \ {r} :
        Delayed(r) =>
            /\ handler[q].pc \notin {"done", "await_log"} => ENABLED HandlerStep(q)
            /\ handler[q].pc = "await_log" =>
                  IF \E w \in logWrites : w.request = q
                  THEN ENABLED LogWriteCompletes /\ ENABLED LogWriteFails
                  ELSE ENABLED MockNotFound(q)
            /\ logWrites # {} => ENABLED LogWriteCompletes

\* while r1 waits in its delay, r2 was resolved, emitted its selected
\* response and had its log row written
C21_Witness ==
    /\ Delayed("r1")
    /\ res["r1"].emitted = <<>>
    /\ handler["r2"].outcome = "success"
    /\ Len(res["r2"].emitted) = 1
    /\ Logged("r2")
    /\ logWrites = {}

(***************************************************************************)
(* The write side of the responses (routes/mocks.js): POST and PUT of a    *)
(* response.  Each handler runs from one await of a store statement to the *)
(* next, so the statements of two requests in flight interleave.  A        *)
(* request body carries isDefault ("true", "false" or "absent"); the other       *)
(* columns get the values the route stores when the body leaves them out.  *)
(***************************************************************************)
WriteIds == {"w1", "w2"}

\* isDefault is truthy
IsDefaultSet(req) == req.isDefault = "true"

\* the handler of a write request as it waits for its first store statement
NewWriteHandler(req) ==
    [pc |-> IF req.kind = "POST" THEN "mock_check"
            ELSE IF IsDefaultSet(req) THEN "unset_defaults" ELSE "update",
     req |-> req, responseId |-> req.responseId, status |-> 0]

\* SELECT m.mock_id FROM mocks m INNER JOIN projects p ... WHERE m.mock_id = ?
WriteMockCheck(w) ==
    /\ handler[w].pc = "mock_check"
    /\ LET HasId(m) == m.mock_id = handler[w].req.id
       IN  handler' = [handler EXCEPT ![w] =
               IF SelectSeq(mocks, HasId) = <<>>
               THEN [@ EXCEPT !.pc = "done", !.status = 404]
               ELSE [@ EXCEPT !.pc = IF IsDefaultSet(handler[w].req) THEN "unset_defaults"
                                     ELSE "insert"]]
    /\ UNCHANGED <<res, logWrites, storeVars, callVars>>

\* UPDATE mock_responses SET is_default = 0 WHERE mock_id = ?
UnsetDefaults(w) ==
    /\ handler[w].pc = "unset_defaults"
    /\ mock_responses' =
          [k \in 1..Len(mock_responses) |->
              IF mock_responses[k].mock_id = handler[w].req.id
              THEN [mock_responses[k] EXCEPT !.is_default = Num(0)]
              ELSE mock_responses[k]]
    /\ handler' = [handler EXCEPT
                     ![w].pc = IF handler[w].req.kind = "POST" THEN "insert" ELSE "update"]
    /\ UNCHANGED <<projects, mocks, request_logs, res, logWrites, callVars>>

\* a response_id no row has
NewResponseId(table) == Len(table) + 1

\* INSERT INTO mock_responses (...) VALUES (...)
PostInsert(w) ==
    /\ handler[w].pc = "insert"
    /\ mock_responses' = Append(mock_responses,
          [response_id |-> NewResponseId(mock_responses), mock_id |-> handler[w].req.id,
           status_code |-> Num(200), headers |-> NoHeaders, body |-> Str(<<>>),
           conditions |-> NoConditions, weight |-> Num(100),
           is_default |-> IF IsDefaultSet(handler[w].req) THEN Num(1) ELSE Num(0)])
    /\ handler' = [handler EXCEPT ![w].pc = "read_back",
                                  ![w].responseId = NewResponseId(mock_responses)]
    /\ UNCHANGED <<projects, mocks, request_logs, res, logWrites, callVars>>

\* UPDATE mock_responses SET is_default = COALESCE(?, is_default), ...
\* WHERE response_id = ? AND mock_id = ?
PutUpdate(w) ==
    /\ handler[w].pc = "update"
    /\ mock_responses' =
          [k \in 1..Len(mock_responses) |->
              IF /\ mock_responses[k].response_id = handler[w].req.responseId
                 /\ mock_responses[k].mock_id = handler[w].req.id
                 /\ handler[w].req.isDefault # "absent"
              THEN [mock_responses[k] EXCEPT
                       !.is_default = IF IsDefaultSet(handler[w].req) THEN Num(1) ELSE Num(0)]
              ELSE mock_responses[k]]
    /\ handler' = [handler EXCEPT ![w].pc = "read_back"]
    /\ UNCHANGED <<projects, mocks, request_logs, res, logWrites, callVars>>

\* SELECT * FROM mock_responses WHERE response_id = ?, and the 201 or 200
ReadBack(w) ==
    /\ handler[w].pc = "read_back"
    /\ handler' = [handler EXCEPT ![w].pc = "done",
                                  ![w].status = IF handler[w].req.kind = "POST" THEN 201 ELSE 200]
    /\ UNCHANGED <<res, logWrites, storeVars, callVars>>

\* a store statement is rejected: the catch block answers 500
WriteFails(w) ==
    /\ handler[w].pc # "done"
    /\ handler' = [handler EXCEPT ![w].pc = "done", ![w].status = 500]
    /\ UNCHANGED <<res, logWrites, storeVars, callVars>>

WriteRequests ==
    [kind : {"POST"}, id : {"m1", "m2", "m9"}, responseId : {0},
     isDefault : {"true", "false", "absent"}]
    \cup [kind : {"PUT"}, id : {"m1", "m2"}, responseId : {0, 1, 2},
          isDefault : {"true", "false", "absent"}]

\* the responses of m1 a write request finds: at most one of them is the default
WriteRows ==
    { rows \in UNION { [1..n -> {x \in StoredResponseRows : x.conditions = NoConditions}] :
                          n \in 0..2 } :
        Cardinality({k \in DOMAIN rows : rows[k].is_default = Num(1)}) <= 1 }

InitWrite ==
    /\ call = [fn |-> "none"]
    /\ ret = Pending
    /\ projects = Projects
    /\ request_logs = <<>>
    /\ logWrites = {}
    /\ res = <<>>
    /\ \E rows \in WriteRows :
          /\ mocks = <<StoredMock(CHOOSE m \in UnsettledMockRows : TRUE), OtherMock>>
          /\ mock_responses = <<OtherResponse>> \o StoredResponses(rows)
    /\ \E reqs \in [WriteIds -> WriteRequests] :
          handler = [w \in WriteIds |-> NewWriteHandler(reqs[w])]

NextWrite ==
    \E w \in WriteIds :
        \/ WriteMockCheck(w)
        \/ UnsetDefaults(w)
        \/ PostInsert(w)
        \/ PutUpdate(w)
        \/ ReadBack(w)
        \/ WriteFails(w)

SpecWrite == InitWrite /\ [][NextWrite]_vars

\* the responses of mock id that are flagged as the default
DefaultsOf(id) == { x \in Members(mock_responses) : x.mock_id = id /\ x.is_default = Num(1) }

\* C22 (as claimed): whatever response create and update requests have run,
\* and however their store statements interleaved, at most one response of
\* any mock has is_default = 1.
C22_AtMostOneDefault ==
    \A m \in Members(mocks) : Cardinality(DefaultsOf(m.mock_id)) <= 1

\* the positions of the stored header entries whose key is Content-Type or content-type
ContentTypeKeys(response) ==
    { k \in 1..Len(StoredHeaderEntries(response)) :
         StoredHeaderEntries(response)[k].key \in {"Content-Type", "content-type"} }

\* C23 (as claimed): a success emit carries the stored Content-Type when the
\* stored headers of the selected response hold a Content-Type or
\* content-type key, and otherwise the type derived from the mock's
\* response_type.
C23_StoredContentTypeKeyWins ==
    \A r \in RequestIds :
        handler[r].outcome = "success" =>
            LET response == handler[r].response
                e == res[r].emitted[1]
            IN  /\ "content-type" \in DOMAIN e.headers
                /\ IF ContentTypeKeys(response) # {}
                   THEN \E k \in ContentTypeKeys(response) :
                           e.headers["content-type"] = StoredHeaderEntries(response)[k].value
                   ELSE e.headers["content-type"] = TypeMap(handler[r].mock.response_type)

\* the stored responses of the mock request r resolved to
ConfiguredResponses(r) ==
    { x \in Members(mock_responses) : x.mock_id = handler[r].mock.mock_id }

\* C25 (as claimed): whatever text the headers and conditions columns of a
\* mock's responses hold, a finished request that resolved to the mock, and
\* whose lookups all succeeded, was answered with one of the mock's
\* configured responses and not with INTERNAL_ERROR.
C25_MalformedStoredDataNeverFatal ==
    \A r \in RequestIds :
        (/\ handler[r].pc = "done"
         /\ handler[r].mock # Null
         /\ ~handler[r].failed
         /\ ConfiguredResponses(r) # {}) =>
            /\ handler[r].outcome = "success"
            /\ handler[r].response \in ConfiguredResponses(r)
            /\ Len(res[r].emitted) = 1
            /\ res[r].emitted[1].status = handler[r].response.status_code

\* the log writes in flight that request r issued on its success path, after
\* it had selected a response
SuccessWrites(r) == { w \in logWrites : w.request = r /\ handler[r].response # Null }

\* C26 (as claimed): within a request the steps come in the order resolve
\* project, resolve mock, select response, delay, emit, log: a mock is
\* resolved only with a project, a response selected only with a mock; a
\* request in its delay has selected its response and has neither emitted
\* nor logged; and the log write of the success path is issued only after
\* the response has been emitted.
C26_StepsInOrder ==
    \A r \in RequestIds :
        /\ handler[r].mock # Null => handler[r].project # Null
        /\ handler[r].response # Null => handler[r].mock # Null
        /\ handler[r].pc = "delay" =>
              /\ handler[r].response # Null
              /\ DelayOf(handler[r].mock) > 0
              /\ res[r].emitted = <<>>
              /\ handler[r].writes = 0
        /\ \A w \in SuccessWrites(r) : w.sent = 1

\* the request-log rows of request r: those of its writes in flight, and those
\* in the table with its path and method
LogRowsOf(r) ==
    { w.row : w \in { x \in logWrites : x.request = r } }
    \cup { x \in Members(request_logs) :
              x.request_path = handler[r].req.path /\ x.request_method = handler[r].req.method }

\* C28 (as claimed): every request-log row of a finished request records the
\* status code that was emitted to the caller (404 for MOCK_NOT_FOUND, the
\* status code of the selected response otherwise) and the id of the
\* resolved mock (null for MOCK_NOT_FOUND).
C28_LogRecordsEmittedStatus ==
    \A r \in RequestIds :
        handler[r].pc = "done" =>
            \A row \in LogRowsOf(r) :
                /\ Len(res[r].emitted) = 1
                /\ row.response_status = res[r].emitted[1].status
                /\ IF handler[r].mock = Null
                   THEN row.mock_id = Null /\ row.response_status = Num(404)
                   ELSE /\ row.mock_id = handler[r].mock.mock_id
                        /\ row.response_status = handler[r].response.status_code

(***************************************************************************)
(* The response a request is to get when it is handled with no other       *)
(* request in flight: the handler run from its start to its end against    *)
(* the stored rows, with random what Math.random() returns if it is called *)
(* and every lookup succeeding.                                            *)
(***************************************************************************)
Response(status, headers, body) == [status |-> status, headers |-> headers, body |-> body]

InternalErrorOn(headers) ==
    Response(Num(500), headers,
             Json("INTERNAL_ERROR", <<"An error occurred while processing the mock request">>))

\* the header entries to set for a selected response of a mock
EntriesToSet(entries, mock) ==
    IF ~Truthy(entries, "Content-Type") /\ ~Truthy(entries, "content-type")
    THEN SetEntry(entries, "Content-Type", TypeMap(mock.response_type))
    ELSE entries

ExecuteSend(mock, response, entries) ==
    IF ValidStatusCode(response.status_code)
    THEN Response(response.status_code, SetHeaders(CorsOnly, EntriesToSet(entries, mock)),
                  IF response.body = Null THEN Str(<<>>) ELSE response.body)
    ELSE InternalErrorOn(SetHeaders(CorsOnly, EntriesToSet(entries, mock)))

ExecuteSelected(mock, response) ==
    IF response.headers.t # "string" \/ JsonParse(response.headers).threw
    THEN ExecuteSend(mock, response, <<>>)
    ELSE IF JsonParse(response.headers).value = Null THEN InternalErrorOn(CorsOnly)
    ELSE ExecuteSend(mock, response, JsonParse(response.headers).value.entries)

ExecutePicked(mock, picked) ==
    IF picked.threw THEN InternalErrorOn(CorsOnly)
    ELSE IF picked.value = Null
    THEN Response(Num(404), CorsOnly,
                  Json("NO_RESPONSE_DEFINED", <<"This mock has no responses configured">>))
    ELSE ExecuteSelected(mock, picked.value)

ExecuteResolved(req, match, random) ==
    IF match.threw THEN InternalErrorOn(CorsOnly)
    ELSE IF ~match.found THEN NotFoundResponse(req)
    ELSE ExecutePicked(match.mock,
             pickResponse(SelectResponses(mock_responses, match.mock.mock_id),
                          req, match.pathParams, random))

Execute(req, random) ==
    IF RouteOf(req.path) = "/:projectSlug"
    THEN Response(Num(400), <<>>,
                  Json("INVALID_REQUEST", <<"Please include a path after the project slug">>))
    ELSE IF ToUpperCase(req.method) = "OPTIONS" THEN Response(Num(204), CorsOnly, Undefined)
    ELSE IF Owners(req) = {}
    THEN Response(Num(404), CorsOnly,
                  Json("PROJECT_NOT_FOUND", <<"No project found with slug", ProjectSlugOf(req.path)>>))
    ELSE ExecuteResolved(req,
             findMatchingMock(mocks, (CHOOSE p \in Owners(req) : TRUE).project_id,
                              MockPathOf(req.path), ToUpperCase(req.method)),
             random)

\* request r has ended, and none of its lookups failed
Answered(r) == handler[r].pc = "done" /\ ~handler[r].failed

\* C30: requests in flight do not influence each other's results: under every
\* interleaving of the steps of two requests and of their log writes, the
\* response a request has emitted is the one it gets when it is handled alone
\* against the same stored rows with the same draw; and a step changes the
\* handler state and the response of one request at most.
C30_ResultsIndependentOfInterleaving ==
    /\ [](\A r \in ConcurrentIds :
             Answered(r) => res[r].emitted = <<Execute(handler[r].req, handler[r].random)>>)
    /\ [][\A r \in ConcurrentIds : \A q \in ConcurrentIds \ {r} :
             (handler'[r] # handler[r] \/ res'[r] # res[r]) =>
                 (handler'[q] = handler[q] /\ res'[q] = res[q])]_vars

\* the two requests asked for the same mock, each went through its delay,
\* their draws were the lowest and the highest one, and they were answered
\* with different responses
C30_Witness ==
    /\ Answered("r1") /\ Answered("r2")
    /\ handler["r1"].req.path = handler["r2"].req.path
    /\ handler["r1"].mock # Null
    /\ DelayOf(handler["r1"].mock) > 0
    /\ handler["r1"].random = 0
    /\ handler["r2"].random = RandomGrid - 1
    /\ res["r1"].emitted[1].status = Num(200)
    /\ res["r2"].emitted[1].status = Num(500)
====
